---- MODULE Spec2Model ----
(***************************************************************************)
(* Fetch orchestrator, cache tiers and rate limiter of StockAI-Trader.     *)
(*                                                                         *)
(* Time is counted in seconds.  One clock `now` stands for time.time() and *)
(* time.monotonic() alike (they advance together); it moves on a grid of   *)
(* 15 s, so every TTL, bar spacing and refill amount of the source is an   *)
(* exact integer.  Token counts are carried times 60, prices in units of   *)
(* 1e-11 (the eleventh decimal place).                                     *)
(***************************************************************************)
EXTENDS Integers, Sequences, FiniteSets, TLC

VARIABLES
    now,      \* the clock, seconds
    env,      \* configuration read once at start-up
    redis,    \* tier 1: RedisAdapter's keys
    mongo,    \* tier 2: MongoAdapter's documents
    disk,     \* tier 3: DataCache's files per (provider, ticker, interval)
    buckets,  \* RateLimiter._buckets
    gates,    \* RateLimiter._gates (SymbolGate._last_seen per provider key)
    call,     \* one get_latest_candles activation per caller
    batch,    \* get_candles_batch: its tasks, semaphore and result mapping
    hist,     \* history: a caller's previous call, call and fault counts, token grants
    tushare,  \* tushare_api: _TOKEN_INDEX, _ACTIVE_CLIENT, _TOKEN_LOCK and its worker threads
    writers,  \* processes inside DataCache.store on the shared cache directory
    faulty    \* the adapter operations of tiers 1 and 2 that fail when called

vars == <<now, env, redis, mongo, disk, buckets, gates, call, batch, hist, tushare, writers,
         faulty>>

----------------------------------------------------------------------------
(* Bounds of the model *)

MaxTicks == 5     \* clock ticks explored
MaxRows == 2      \* rows in one provider answer
MaxCalls == 3     \* get_latest_candles calls per behaviour
MaxFaults == 1    \* injected storage faults per behaviour
MaxTokens == 3    \* credentials in the tushare pool

None == -1        \* Optional[datetime] = None
NaN == -2         \* an absent (NaN) cell

TimeGrid == {120 + 15 * k : k \in 0..MaxTicks}

\* the candles a provider can send: instant t, close c, volume v
Rows ==
    {[t |-> 60, c |-> 20, v |-> 50],
     [t |-> 60, c |-> 27, v |-> NaN],
     [t |-> 120, c |-> 20, v |-> 50]}

Providers == {"akshare", "akshare_us", "yfinance"}
Intervals == {"1m", "1d"}
Tickers == {"AAPL", "MSFT"}

----------------------------------------------------------------------------
(* Tables: a DataFrame is the sequence of its rows in index order *)

NoDF == [some |-> FALSE, rows |-> <<>>]
Some(rows) == [some |-> TRUE, rows |-> rows]

RECURSIVE SeqsUpTo(_)
SeqsUpTo(n) ==
    IF n = 0 THEN {<<>>}
    ELSE LET s == SeqsUpTo(n - 1)
         IN  s \cup {Append(x, r) : x \in {y \in s : Len(y) = n - 1}, r \in Rows}

\* DataFrame.sort_index(): rows in index order, ties in their former order
RECURSIVE SortIndex(_)
SortIndex(rows) ==
    IF rows = <<>> THEN <<>>
    ELSE LET n == Len(rows)
             x == rows[n]
             s == SortIndex(SubSeq(rows, 1, n - 1))
             k == Cardinality({i \in 1..Len(s) : s[i].t <= x.t})
         IN  SubSeq(s, 1, k) \o <<x>> \o SubSeq(s, k + 1, Len(s))

RECURSIVE Pick(_, _, _)
Pick(rows, keep, i) ==
    IF i > Len(rows) THEN <<>>
    ELSE (IF i \in keep THEN <<rows[i]>> ELSE <<>>) \o Pick(rows, keep, i + 1)

\* df[~df.index.duplicated(keep="last")]
DropDuplicatedKeepLast(rows) ==
    Pick(rows, {i \in 1..Len(rows) : \A j \in (i + 1)..Len(rows) : rows[j].t # rows[i].t}, 1)

_normalize_dataframe(rows) ==
    IF rows = <<>> THEN rows
    ELSE DropDuplicatedKeepLast(SortIndex(rows))

StrictlyIncreasing(rows) ==
    \A i \in 1..Len(rows) : \A j \in 1..Len(rows) : i < j => rows[i].t < rows[j].t

\* combined.groupby(level=0).last(): one row per instant, each column holding
\* the group's last non-null cell (NaN when the group has none)
LastValid(cells) ==
    LET ok == {i \in 1..Len(cells) : cells[i] # NaN}
    IN  IF ok = {} THEN NaN
        ELSE cells[CHOOSE i \in ok : \A j \in ok : j <= i]

GroupRows(rows, t) == Pick(rows, {i \in 1..Len(rows) : rows[i].t = t}, 1)

RECURSIVE GroupByLast(_, _)
GroupByLast(rows, ts) ==
    IF ts = {} THEN <<>>
    ELSE LET t == CHOOSE x \in ts : \A y \in ts : x <= y
             g == GroupRows(rows, t)
         IN  <<[t |-> t,
                c |-> LastValid([i \in 1..Len(g) |-> g[i].c]),
                v |-> LastValid([i \in 1..Len(g) |-> g[i].v])]>>
             \o GroupByLast(rows, ts \ {t})

InstantsOf(rows) == {rows[i].t : i \in 1..Len(rows)}

\* a clip that looks at the start of the range only
_clip_dataframeFromStart(rows, start_ts, end_ts) ==
    Pick(rows, {i \in 1..Len(rows) : start_ts # None => rows[i].t >= start_ts}, 1)

\* the merge without its groupby: both rows of a shared instant stay
MergeFramesUngrouped(cached_df, fresh_df) ==
    IF cached_df.some /\ cached_df.rows # <<>>
    THEN SortIndex(cached_df.rows \o fresh_df)
    ELSE fresh_df

\* get_latest_candles, lines 204-217: the fetched frame merged with the cached one
MergeFrames(cached_df, fresh_df) ==
    LET df == DropDuplicatedKeepLast(SortIndex(fresh_df))
    IN  IF cached_df.some /\ cached_df.rows # <<>>
        THEN LET cached == DropDuplicatedKeepLast(cached_df.rows)
                 combined == SortIndex(cached \o df)
             IN  GroupByLast(combined, InstantsOf(combined))
        ELSE df

_clip_dataframe(rows, start_ts, end_ts) ==
    Pick(rows, {i \in 1..Len(rows) :
                   /\ (start_ts # None => rows[i].t >= start_ts)
                   /\ (end_ts # None => rows[i].t <= end_ts)}, 1)

\* timedelta of one bar, seconds
ExpectedDelta(interval) ==
    CASE interval = "1m" -> 60
      [] interval = "5m" -> 300
      [] interval = "15m" -> 900
      [] interval = "1h" -> 3600
      [] OTHER -> 86400

\* a freshness check that asks for a refresh whatever the rows
_needs_refreshAlways(df, interval, end, clock) == TRUE

\* a freshness check that looks at the clock only, never at the requested end
_needs_refreshIgnoringEnd(df, interval, end, clock) ==
    IF ~df.some \/ df.rows = <<>> THEN TRUE
    ELSE clock - df.rows[Len(df.rows)].t > ExpectedDelta(interval) * 2

_needs_refresh(df, interval, end, clock) ==
    IF ~df.some \/ df.rows = <<>> THEN TRUE
    ELSE LET last_idx == df.rows[Len(df.rows)].t
             expected_delta == ExpectedDelta(interval)
             tolerance == expected_delta * 2
         IN  IF end # None /\ last_idx >= end - expected_delta THEN FALSE
             ELSE IF clock - last_idx > tolerance THEN TRUE
             ELSE FALSE

INTERVAL_TTL(interval) ==
    CASE interval = "1m" -> 60
      [] interval = "5m" -> 180
      [] interval = "15m" -> 600
      [] interval = "1h" -> 2700
      [] interval = "1d" -> 21600
      [] OTHER -> 86400

PROVIDER_TTL_OVERRIDES(provider, interval, base_ttl) ==
    CASE provider = "akshare" /\ interval = "1m" -> 45
      [] provider = "akshare" /\ interval = "5m" -> 120
      [] provider = "akshare" /\ interval = "15m" -> 600
      [] provider = "akshare" /\ interval = "30m" -> 900
      [] provider = "akshare" /\ interval = "1h" -> 1800
      [] provider = "akshare_us" /\ interval = "1d" -> 21600
      [] OTHER -> base_ttl

\* the ttl_seconds of the DataCache that _select_cache builds
_select_cache(interval, provider) ==
    PROVIDER_TTL_OVERRIDES(provider, interval, INTERVAL_TTL(interval))

\* CacheManager.ttl_for_interval with the default TTL_* settings
ttl_for_interval(interval) ==
    CASE interval \in {"tick", "1s"} -> 30
      [] interval \in {"1m", "5m", "15m", "30m"} -> 60
      [] interval \in {"1h", "2h", "4h"} -> 300
      [] OTHER -> 3600

\* to_json(orient="split") keeps ten decimals of a float (double_precision=10):
\* a cell in units of 1e-11 is rounded to a multiple of ten; NaN becomes null
RoundCell(x) == IF x = NaN THEN NaN ELSE ((x + 5) \div 10) * 10

_serialize(rows) ==
    [i \in 1..Len(rows) |->
        [t |-> rows[i].t, c |-> RoundCell(rows[i].c), v |-> RoundCell(rows[i].v)]]

\* read_json gives back the cells the payload holds
_deserialize(payload) == Some(payload)

----------------------------------------------------------------------------
(* Tier 3: DataCache, one parquet, csv and meta file per key *)

\* str.upper() and str.lower() on the identifiers of the model
Upper(x) == CASE x = "aapl" -> "AAPL" [] OTHER -> x
Lower(x) == CASE x = "AAPL" -> "aapl" [] x = "AKSHARE" -> "akshare" [] OTHER -> x

\* instrument identifiers that carry an exchange suffix
DottedTickers == {"000001.SZ", "000001.SH"}

\* PurePath.stem of a file name: what follows the last dot is the suffix
Stem(name) ==
    CASE name = "000001.SZ" -> "000001"
      [] name = "000001.SH" -> "000001"
      [] OTHER -> name

\* Path.with_suffix(".parquet" | ".csv" | ".meta"): the suffix the last path
\* component already has is replaced; the three files of an entry are told
\* apart by the record fields parquet, csv and meta
with_suffix(base) == <<base[1], base[2], Stem(base[3])>>

\* a path that leaves the ticker out: every instrument of a provider shares it
_base_pathShared(ticker, timeframe, provider) == <<Lower(provider), timeframe, "">>

\* DataCache._base_path: <base>/<provider>/<timeframe>/<TICKER>
_base_path(ticker, timeframe, provider) == <<Lower(provider), timeframe, Upper(ticker)>>

\* DataCache._legacy_base_path: <base>/<timeframe>/<TICKER>, no provider
_legacy_base_path(ticker, timeframe) == <<"", timeframe, Upper(ticker)>>

\* DataCache._primary_path, _fallback_path and _metadata_path of a key
FilesOf(ticker, timeframe, provider) == with_suffix(_base_path(ticker, timeframe, provider))

LegacyFilesOf(ticker, timeframe) == with_suffix(_legacy_base_path(ticker, timeframe))

PathsOf(tickers, providers) ==
    {FilesOf(t, i, p) : t \in tickers, i \in Intervals, p \in providers}
    \cup {LegacyFilesOf(t, i) : t \in tickers, i \in Intervals}

Paths == PathsOf(Tickers, Providers)

NoFile == [st |-> "absent", rows |-> <<>>]
NoMeta == [st |-> "absent", cached_at |-> 0, provider |-> "", rows |-> 0]
NoEntry == [parquet |-> NoFile, csv |-> NoFile, meta |-> NoMeta]

\* a staleness test that never finds an entry within its TTL
is_staleAlways(entry, legacy, ttl_seconds, clock) == TRUE

\* DataCache.is_stale: the key's sidecar metadata, else the legacy one
is_stale(entry, legacy, ttl_seconds, clock) ==
    LET meta == IF entry.meta.st = "absent" THEN legacy.meta ELSE entry.meta
    IN  IF meta.st = "absent" THEN TRUE
        ELSE IF meta.st = "corrupt" THEN TRUE
        ELSE clock - meta.cached_at >= ttl_seconds

\* DataCache._read_dataframe: the frame, or the exception it lets through
_read_dataframe(file) ==
    IF file.st = "ok" THEN [kind |-> "df", rows |-> file.rows]
    ELSE [kind |-> "raise", rows |-> <<>>]

\* DataCache.load, lines 49-61: the artifact files the lookup settles on: the
\* key's own, else the legacy parquet, else the legacy csv
ArtifactOf(entry, legacy) ==
    IF entry.parquet.st = "absent" /\ entry.csv.st = "absent"
    THEN IF legacy.parquet.st # "absent"
         THEN [parquet |-> legacy.parquet, csv |-> entry.csv, legacy |-> TRUE]
         ELSE [parquet |-> entry.parquet, csv |-> legacy.csv, legacy |-> TRUE]
    ELSE [parquet |-> entry.parquet, csv |-> entry.csv, legacy |-> FALSE]

\* DataCache.load: None, a frame, or an exception
load(entry, legacy, ttl_seconds, clock) ==
    LET files == ArtifactOf(entry, legacy)
    IN  IF files.parquet.st = "absent" /\ files.csv.st = "absent"
        THEN [kind |-> "none", rows |-> <<>>]
        ELSE IF is_stale(entry, legacy, ttl_seconds, clock)
        THEN [kind |-> "none", rows |-> <<>>]
        ELSE IF files.parquet.st # "absent" THEN _read_dataframe(files.parquet)
        ELSE _read_dataframe(files.csv)

\* DataCache.store with the outcome of the parquet write (wrote)
store(entry, df, provider, clock, wrote) ==
    IF df = <<>> THEN entry
    ELSE [parquet |-> IF wrote THEN [st |-> "ok", rows |-> df] ELSE entry.parquet,
          csv     |-> IF wrote THEN entry.csv ELSE [st |-> "ok", rows |-> df],
          meta    |-> [st |-> "ok", cached_at |-> clock, provider |-> provider,
                       rows |-> Len(df)]]

\* an entry one of whose files is there but cannot be read
Damaged(entry) ==
    \/ entry.parquet.st = "corrupt"
    \/ entry.csv.st = "corrupt"
    \/ entry.meta.st = "corrupt"

\* DataCache.clear: the files of the key and the legacy files of its ticker
clear(files, ticker, timeframe, provider) ==
    [p \in DOMAIN files |->
        IF p \in {FilesOf(ticker, timeframe, provider), LegacyFilesOf(ticker, timeframe)}
        THEN NoEntry
        ELSE files[p]]

----------------------------------------------------------------------------
(* Tiers 1 and 2: RedisAdapter, MongoAdapter, CacheManager *)

\* CacheManager.make_key
make_key(provider, ticker, interval) == <<Lower(provider), Upper(ticker), Lower(interval)>>

HotKeys == {make_key(p, t, i) : p \in Providers, t \in Tickers, i \in Intervals}

\* a key of tier 1 or 2: the payload, its expiry, and (history) the instant at
\* which the rows it holds were written to tier 3 and the provider recorded
\* with them there
NoHot == [st |-> "absent", payload |-> <<>>, expires |-> 0, origin |-> 0, by |-> ""]

\* RedisAdapter.get: a key lives until its setex TTL has run out
RedisGet(key, clock) ==
    IF ~env.redis \/ "redis.get" \in faulty THEN NoDF
    ELSE IF redis[key].st = "absent" \/ clock >= redis[key].expires THEN NoDF
    ELSE Some(redis[key].payload)

\* MongoAdapter.get: a document past expires_at is not returned
MongoGet(key, clock) ==
    IF ~env.mongo \/ "mongo.get" \in faulty THEN NoDF
    ELSE IF mongo[key].st = "absent" \/ mongo[key].expires < clock THEN NoDF
    ELSE Some(mongo[key].payload)

\* the entry that CacheManager.load_dataframe reads: tier 1, else tier 2
HotEntry(key, clock) ==
    IF RedisGet(key, clock).some THEN redis[key]
    ELSE IF MongoGet(key, clock).some THEN mongo[key]
    ELSE NoHot

\* CacheManager.load_dataframe, the adapters it asks: tier 1 when it is on,
\* tier 2 when it is on and tier 1 gave nothing
TiersRead(provider, ticker, interval, clock) ==
    LET key == make_key(provider, ticker, interval)
    IN  (IF env.redis THEN {1} ELSE {})
        \cup (IF env.mongo /\ ~RedisGet(key, clock).some THEN {2} ELSE {})

load_dataframe(provider, ticker, interval, clock) ==
    LET key == make_key(provider, ticker, interval)
        payload == IF RedisGet(key, clock).some THEN RedisGet(key, clock)
                   ELSE MongoGet(key, clock)
    IN  IF ~payload.some THEN NoDF ELSE _deserialize(payload.rows)

\* RedisAdapter.set and MongoAdapter.set do something: the adapter is enabled
\* and the call to the server does not fail (an exception is logged and dropped)
RedisSets == env.redis /\ "redis.set" \notin faulty

MongoSets == env.mongo /\ "mongo.set" \notin faulty

\* the operations of the adapters that are enabled
AdapterOps ==
    (IF env.redis THEN {"redis.get", "redis.set"} ELSE {})
    \cup (IF env.mongo THEN {"mongo.get", "mongo.set"} ELSE {})

\* an adapter that writes whether or not it is enabled and reachable
HotSetAlways(tier, enabled, key, df, ttl, clock, origin, by) ==
    IF df = <<>> \/ ttl <= 0 THEN tier
    ELSE [tier EXCEPT ![key] = [st |-> "ok", payload |-> _serialize(df),
                                expires |-> clock + ttl, origin |-> origin, by |-> by]]

\* RedisAdapter.set / MongoAdapter.set as called by store_dataframe
HotSet(tier, enabled, key, df, ttl, clock, origin, by) ==
    IF ~enabled \/ df = <<>> \/ ttl <= 0 THEN tier
    ELSE [tier EXCEPT ![key] = [st |-> "ok", payload |-> _serialize(df),
                                expires |-> clock + ttl, origin |-> origin, by |-> by]]

----------------------------------------------------------------------------
(* Rate limiter: LimitConfig, TokenBucket, SymbolGate, RateLimiter *)

ConfigNames == {"yfinance", "akshare", "tushare"}

\* name.split("_", 1)[0]
BaseName(name) == CASE name = "akshare_us" -> "akshare" [] OTHER -> name

\* a lookup of the configuration by the exact name only
_config_forExact(provider) ==
    IF Lower(provider) \in ConfigNames THEN Lower(provider) ELSE ""

\* RateLimiter._config_for: the configuration's name, or "" for None
_config_for(provider) ==
    IF Lower(provider) \in ConfigNames THEN Lower(provider)
    ELSE IF BaseName(Lower(provider)) \in ConfigNames THEN BaseName(Lower(provider))
    ELSE ""

\* a limiter that treats every configuration as switched off
enabledNever(config) == FALSE

\* LimitConfig.enabled
enabled(config) == config.rpm > 0

NoBucket == [st |-> "absent", capacity |-> 0, tokens |-> 0, refill_rate |-> 0,
             updated_at |-> 0]

\* TokenBucket.__init__ as RateLimiter._bucket_for calls it; tokens and the
\* refill rate are carried times 60
\* a bucket that always refills one token a second
NewBucketPerSecond(config, clock) ==
    [st |-> "ok",
     capacity |-> IF config.rpm > 1 THEN config.rpm ELSE 1,
     tokens |-> 60 * (IF config.rpm > 1 THEN config.rpm ELSE 1),
     refill_rate |-> 60,
     updated_at |-> clock]

NewBucket(config, clock) ==
    [st |-> "ok",
     capacity |-> IF config.rpm > 1 THEN config.rpm ELSE 1,
     tokens |-> 60 * (IF config.rpm > 1 THEN config.rpm ELSE 1),
     refill_rate |-> IF config.rpm > 0 THEN config.rpm ELSE 60,
     updated_at |-> clock]

\* a limiter that builds a bucket on every call
_bucket_forFresh(provider_key, config, clock) == NewBucket(config, clock)

_bucket_for(provider_key, config, clock) ==
    IF buckets[provider_key].st = "absent" THEN NewBucket(config, clock)
    ELSE buckets[provider_key]

Min(a, b) == IF a <= b THEN a ELSE b

Max(a, b) == IF a >= b THEN a ELSE b

\* a refill that adds no token
RefillNever(bucket, clock) == [bucket EXCEPT !.updated_at = clock]

\* a refill that is not capped at the capacity
RefillUncapped(bucket, clock) ==
    [bucket EXCEPT !.updated_at = clock,
                   !.tokens = bucket.tokens + (clock - bucket.updated_at) * bucket.refill_rate]

\* TokenBucket.acquire, the refill of one pass of its loop
Refill(bucket, clock) ==
    LET elapsed == clock - bucket.updated_at
    IN  [bucket EXCEPT
            !.updated_at = clock,
            !.tokens = IF elapsed > 0
                       THEN Min(60 * bucket.capacity, bucket.tokens + elapsed * bucket.refill_rate)
                       ELSE bucket.tokens]

\* a bucket that hands out tokens without spending them
TakeTokenFree(bucket) == bucket

\* whether that pass takes a token
HasToken(bucket) == bucket.tokens >= 60

TakeToken(bucket) == [bucket EXCEPT !.tokens = bucket.tokens - 60]

\* the key of SymbolGate._last_seen
GateSymbol(provider_key, symbol) == <<provider_key, Upper(symbol)>>

GateSymbols == {GateSymbol(k, t) : k \in ConfigNames, t \in Tickers}

\* a gate that lets every caller through at once
GateOpenAlways(last_seen, symbol_key, min_interval, clock) == TRUE

\* SymbolGate.wait, one pass of its loop: may the caller go
GateOpen(last_seen, symbol_key, min_interval, clock) ==
    clock - last_seen[symbol_key] >= min_interval

----------------------------------------------------------------------------
(* Provider resolver: the registry, interval support, market classes *)

\* default_providers(): the order of registration; yfinance is always there,
\* the others when their library and credentials are
RegistryOrder == <<"tushare", "akshare", "akshare_us", "yfinance">>

Registries == {r \cup {"yfinance"} : r \in SUBSET {"tushare", "akshare", "akshare_us"}}

\* CandleProvider.supports of the four providers
supports(provider, interval) ==
    CASE provider = "yfinance" -> TRUE
      [] provider = "tushare" -> interval \in {"1m", "5m", "15m", "30m", "60m", "1h", "1d"}
      [] provider = "akshare" -> interval \in {"1m", "5m", "15m", "30m", "1h", "1d"}
      [] provider = "akshare_us" -> interval \in {"1d"}
      [] OTHER -> FALSE

ResolverTickers == {"600519.SH", "0700.HK", "AAPL", "BTC-USD"}
ResolverIntervals == {"1m", "1d", "1wk"}

\* _is_china_equity, str.endswith(".HK") and _is_us_equity on these identifiers
_is_china_equity(ticker) == ticker \in {"600519.SH", "000001.SZ", "000001.SH"}
EndsWithHK(ticker) == ticker \in {"0700.HK"}
_is_us_equity(ticker) == ticker \in {"AAPL", "MSFT"}

\* the entries of a sequence
Range(seq) == {seq[i] : i \in 1..Len(seq)}

\* a _maybe_add that does not look whether the provider is already listed
_maybe_addAgain(ordered, provider, interval) ==
    IF supports(provider, interval) THEN Append(ordered, provider) ELSE ordered

\* _resolve_providers._maybe_add
_maybe_add(ordered, provider, interval) ==
    IF supports(provider, interval) /\ provider \notin Range(ordered)
    THEN Append(ordered, provider)
    ELSE ordered

\* the loops over names, lines 516-521 and 540-545: registry.get(name), then
\* _maybe_add, unknown names left out
RECURSIVE AddNamed(_, _, _, _)
AddNamed(ordered, names, registry, interval) ==
    IF names = <<>> THEN ordered
    ELSE AddNamed(IF names[1] \in registry
                  THEN _maybe_add(ordered, names[1], interval)
                  ELSE ordered,
                  Tail(names), registry, interval)

\* a resolver that appends no generic fallback
AddRegistryNone(ordered, registry, interval) == ordered

\* lines 546-547: every registered provider, in the order of registration
AddRegistry(ordered, registry, interval) ==
    AddNamed(ordered, RegistryOrder, registry, interval)

\* lines 524-538: the preferred names of the ticker's market: the environment's
\* override when there is one, else the market's list
PreferredFor(ticker, overrides) ==
    LET fallback == IF _is_china_equity(ticker)
                    THEN <<"tushare", "akshare", "yfinance", "akshare_us">>
                    ELSE IF EndsWithHK(Upper(ticker))
                    THEN <<"yfinance", "akshare", "akshare_us", "tushare">>
                    ELSE IF _is_us_equity(ticker)
                    THEN <<"yfinance", "akshare_us", "akshare", "tushare">>
                    ELSE <<"yfinance", "akshare", "akshare_us", "tushare">>
        preferred == IF _is_china_equity(ticker) THEN overrides.cn
                     ELSE IF EndsWithHK(Upper(ticker)) THEN overrides.hk
                     ELSE IF _is_us_equity(ticker) THEN overrides.us
                     ELSE <<>>
    IN  IF preferred = <<>> THEN fallback ELSE preferred

\* _resolve_providers; requested = <<>> stands for None and for an empty list
_resolve_providers(ticker, interval, requested) ==
    LET registry == env.registry
        ordered == IF requested # <<>>
                   THEN AddNamed(<<>>, requested, registry, interval)
                   ELSE AddRegistry(AddNamed(<<>>, PreferredFor(ticker, env.preferred),
                                             registry, interval),
                                    registry, interval)
    IN  IF ordered = <<>> THEN <<"yfinance">> ELSE ordered

----------------------------------------------------------------------------
(* get_latest_candles *)

Callers == DOMAIN call

IdleCall ==
    [pc |-> "idle", ticker |-> "", interval |-> "", start |-> None, end |-> None,
     use_cache |-> TRUE, force_refresh |-> FALSE, seq |-> <<>>, i |-> 0,
     cached_df |-> NoDF, rows |-> <<>>, source |-> "",
     \* history of the call, read by the properties only
     fetches |-> 0, acquired |-> FALSE, gated |-> FALSE, via |-> "",
     served |-> [origin |-> 0, ttl |-> 0, by |-> ""], stored |-> <<>>, at |-> 0,
     raw |-> <<>>, failures |-> 0, nocache |-> TRUE, errors |-> {},
     cached_by |-> "", damaged |-> FALSE, requested |-> <<>>,
     trace |-> <<>>, read |-> {}, before |-> {}]

\* lines 137-142: the locals of a call that begins with the resolved provider list
BeginCall(ticker, interval, start, end, use_cache, force_refresh, seq) ==
    [IdleCall EXCEPT !.pc = "cache", !.ticker = ticker, !.interval = interval,
                     !.start = start, !.end = end, !.use_cache = use_cache,
                     !.force_refresh = force_refresh, !.seq = seq, !.i = 1]

\* provider lists the resolver can hand over: non-empty, without repetition
ProviderSequences ==
    {<<p>> : p \in Providers}
    \cup {s \in {<<p, q>> : p \in Providers, q \in Providers} : s[1] # s[2]}

\* what provider.fetch_candles can come back with
Answers ==
    {[kind |-> k, rows |-> <<>>] : k \in {"ProviderError", "Exception"}}
    \cup {[kind |-> "df", rows |-> r] : r \in SeqsUpTo(MaxRows)}

\* a caller calls get_latest_candles
StartCall(w, ticker, interval, start, end, use_cache, force_refresh, seq) ==
    /\ call[w].pc \in {"idle", "done", "raised"}
    /\ hist.calls < MaxCalls
    /\ call' = [call EXCEPT ![w] =
                  BeginCall(ticker, interval, start, end, use_cache, force_refresh, seq)]
    /\ hist' = [hist EXCEPT !.calls = hist.calls + 1, !.prev[w] = IdleCall]
    /\ UNCHANGED <<now, env, redis, mongo, disk, buckets, gates, batch, tushare, writers, faulty>>

\* a caller calls get_latest_candles with a list of provider names, or none:
\* lines 137-142 with the provider sequence resolved
StartResolved(w, ticker, interval, requested) ==
    /\ call[w].pc \in {"idle", "done", "raised"}
    /\ call' = [call EXCEPT ![w] =
                  [BeginCall(ticker, interval, None, None, TRUE, FALSE,
                             _resolve_providers(ticker, interval, requested))
                      EXCEPT !.requested = requested]]
    /\ UNCHANGED <<now, env, redis, mongo, disk, buckets, gates, batch, hist, tushare, writers, faulty>>

\* the caller repeats its last call: same ticker, interval, start, end and
\* provider list, force_refresh=False; the finished call is kept as history
CallAgain(w) ==
    LET c == call[w]
    IN  /\ c.pc \in {"done", "raised"}
        /\ hist.calls < MaxCalls
        /\ call' = [call EXCEPT ![w] =
                      BeginCall(c.ticker, c.interval, c.start, c.end, c.use_cache,
                                FALSE, c.seq)]
        /\ hist' = [hist EXCEPT !.calls = hist.calls + 1, !.prev[w] = c]
        /\ UNCHANGED <<now, env, redis, mongo, disk, buckets, gates, batch, tushare, writers, faulty>>

\* the return statements: clip, tag, hand back
Returned(c, rows, source, via, served, stored) ==
    [c EXCEPT !.pc = "done", !.rows = _clip_dataframe(rows, c.start, c.end),
              !.source = source, !.via = via, !.served = served,
              !.stored = stored, !.at = now]

\* CacheManager.store_dataframe on both tiers
store_dataframe(tier, on, provider, ticker, interval, df, ttl, origin, by) ==
    HotSet(tier, on, make_key(provider, ticker, interval), df, ttl, now, origin, by)

\* a lookup that reads the tiers whatever use_cache says
ReadsCacheAlways(use_cache) == TRUE

\* line 148: are the tiers read
ReadsCache(use_cache) == use_cache

\* a lookup that serves a fresh tier-3 entry even under force_refresh
MayServeForced(force_refresh, df, interval, end, clock) ==
    ~_needs_refresh(df, interval, end, clock)

\* line 171: may the tier-3 entry be served
MayServe(force_refresh, df, interval, end, clock) ==
    ~force_refresh /\ ~_needs_refresh(df, interval, end, clock)

\* lines 144-174: the cache lookups for the provider in turn
CacheCheck(w) ==
    LET c == call[w]
        provider == c.seq[c.i]
        ttl_seconds == _select_cache(c.interval, provider)
        path == FilesOf(c.ticker, c.interval, provider)
        legacy == LegacyFilesOf(c.ticker, c.interval)
        key == make_key(provider, c.ticker, c.interval)
        hot_raw == IF ~c.force_refresh
                   THEN load_dataframe(provider, c.ticker, c.interval, now)
                   ELSE NoDF
        hot_df == IF hot_raw.some THEN Some(_normalize_dataframe(hot_raw.rows)) ELSE NoDF
        hot_fresh == hot_df.some /\ ~_needs_refresh(hot_df, c.interval, c.end, now)
        disk_res == load(disk[path], disk[legacy], ttl_seconds, now)
        disk_df == Some(_normalize_dataframe(disk_res.rows))
        \* history: the metadata that goes with the artifact read, and whether
        \* the lookup met a damaged file
        disk_meta == IF ArtifactOf(disk[path], disk[legacy]).legacy
                     THEN disk[legacy].meta ELSE disk[path].meta
        damaged == \/ Damaged(disk[path])
                   \/ /\ ArtifactOf(disk[path], disk[legacy]).legacy
                      /\ Damaged(disk[legacy])
        disk_fresh == MayServe(c.force_refresh, disk_df, c.interval, c.end, now)
        ttl_hot == ttl_for_interval(c.interval)
        absent == /\ disk[path] = NoEntry
                  /\ disk[legacy] = NoEntry
                  /\ redis[key].st = "absent"
                  /\ mongo[key].st = "absent"
        \* history: the tiers this lookup reads, and the lookup as an event of
        \* the call (flag: did it leave the call with cached rows)
        read == (IF ~c.force_refresh THEN TiersRead(provider, c.ticker, c.interval, now) ELSE {})
                \cup (IF hot_fresh THEN {} ELSE {3})
        found == IF disk_res.kind = "df" THEN disk_df ELSE hot_df
        looked == [c EXCEPT !.read = read,
                            !.trace = Append(c.trace, [ev |-> "lookup", i |-> c.i,
                                                       flag |-> hot_fresh \/ found.rows # <<>>])]
        cleared == [(IF ReadsCache(c.use_cache) THEN looked ELSE c) EXCEPT
                             !.acquired = FALSE, !.gated = FALSE,
                             !.nocache = c.nocache /\ absent,
                             !.damaged = c.use_cache /\ damaged]
    IN  /\ c.pc = "cache"
        /\ c.i <= Len(c.seq)
        /\ IF ~ReadsCache(c.use_cache)
           THEN /\ call' = [call EXCEPT ![w] = [cleared EXCEPT !.pc = "limit", !.cached_df = NoDF]]
                /\ UNCHANGED <<redis, mongo>>
           ELSE IF hot_fresh
           THEN /\ call' = [call EXCEPT ![w] =
                              Returned(looked, hot_df.rows, provider, "hot",
                                       [origin |-> HotEntry(key, now).origin, ttl |-> ttl_hot,
                                        by |-> HotEntry(key, now).by],
                                       <<>>)]
                /\ UNCHANGED <<redis, mongo>>
           ELSE IF disk_res.kind = "raise"
           THEN /\ call' = [call EXCEPT ![w] = [c EXCEPT !.pc = "raised", !.at = now,
                                                          !.damaged = damaged]]
                /\ UNCHANGED <<redis, mongo>>
           ELSE IF disk_res.kind = "df"
           THEN /\ redis' = store_dataframe(redis, RedisSets, provider, c.ticker, c.interval,
                                            disk_df.rows, ttl_hot, disk_meta.cached_at,
                                            disk_meta.provider)
                /\ mongo' = store_dataframe(mongo, MongoSets, provider, c.ticker, c.interval,
                                            disk_df.rows, ttl_hot, disk_meta.cached_at,
                                            disk_meta.provider)
                /\ call' = [call EXCEPT ![w] =
                              IF disk_fresh
                              THEN Returned(looked, disk_df.rows, provider, "disk",
                                            [origin |-> disk_meta.cached_at,
                                             ttl |-> ttl_seconds,
                                             by |-> disk_meta.provider], <<>>)
                              ELSE [cleared EXCEPT !.pc = "limit", !.cached_df = disk_df,
                                                   !.cached_by = disk_meta.provider]]
           ELSE /\ call' = [call EXCEPT ![w] =
                              [cleared EXCEPT !.pc = "limit", !.cached_df = hot_df,
                                              !.cached_by = HotEntry(key, now).by]]
                /\ UNCHANGED <<redis, mongo>>
        /\ UNCHANGED <<now, env, disk, buckets, gates, batch, hist, tushare, writers, faulty>>

\* an exhaustion that re-raises the last provider error
ExhaustedRaises(w) ==
    /\ call[w].pc = "cache"
    /\ call[w].i > Len(call[w].seq)
    /\ call' = [call EXCEPT ![w].pc = "raised", ![w].at = now]
    /\ UNCHANGED <<now, env, redis, mongo, disk, buckets, gates, batch, hist, tushare, writers, faulty>>

\* lines 234-236: the provider list is used up
Exhausted(w) ==
    LET c == call[w]
    IN  /\ c.pc = "cache"
        /\ c.i > Len(c.seq)
        /\ call' = [call EXCEPT ![w] =
                      Returned(c, <<>>, "", "empty", [origin |-> 0, ttl |-> 0, by |-> ""],
                               <<>>)]
        /\ UNCHANGED <<now, env, redis, mongo, disk, buckets, gates, batch, hist, tushare, writers, faulty>>

\* RateLimiter.limit, lines 136-139: does the call go through a bucket
Limited(name, config) == name # "" /\ enabled(config)

\* RateLimiter.limit up to the token: the configuration, the bucket, one pass
\* of TokenBucket.acquire
Acquire(w) ==
    LET c == call[w]
        name == _config_for(c.seq[c.i])
        config == env.limits[name]
        bucket == Refill(_bucket_for(name, config, now), now)
        \* history: a bucket that is not the registered one was built by this call
        made == IF _bucket_for(name, config, now) # buckets[name] THEN 1 ELSE 0
    IN  /\ c.pc = "limit"
        /\ IF ~Limited(name, config)
           THEN /\ call' = [call EXCEPT ![w].pc = "fetch"]
                /\ UNCHANGED <<buckets, hist>>
           ELSE IF HasToken(bucket)
           THEN /\ buckets' = [buckets EXCEPT ![name] = TakeToken(bucket)]
                /\ call' = [call EXCEPT ![w].pc = "gate", ![w].acquired = TRUE]
                /\ hist' = [hist EXCEPT !.grants[name] = Append(@, now),
                                        !.built[name] = @ + made]
           ELSE /\ buckets' = [buckets EXCEPT ![name] = bucket]
                /\ call' = [call EXCEPT ![w].pc = "sleep"]
                /\ hist' = [hist EXCEPT !.built[name] = @ + made]
        /\ UNCHANGED <<now, env, redis, mongo, disk, gates, batch, tushare, writers, faulty>>

\* RateLimiter.limit after the token: one pass of SymbolGate.wait, when configured
Gate(w) ==
    LET c == call[w]
        name == _config_for(c.seq[c.i])
        config == env.limits[name]
        symbol_key == GateSymbol(name, c.ticker)
        \* history: the gate is built by the first call that needs it
        gmade == IF gates[name].made THEN 0 ELSE 1
    IN  /\ c.pc = "gate"
        /\ IF config.per_symbol_interval > 0
           THEN IF GateOpen(gates[name].last_seen, symbol_key, config.per_symbol_interval, now)
                THEN /\ gates' = [gates EXCEPT ![name].made = TRUE,
                                               ![name].last_seen[symbol_key] = now]
                     /\ call' = [call EXCEPT ![w].pc = "fetch", ![w].gated = TRUE]
                     /\ hist' = [hist EXCEPT !.passes[symbol_key] = Append(@, now),
                                             !.gbuilt[name] = @ + gmade]
                ELSE /\ gates' = [gates EXCEPT ![name].made = TRUE]
                     /\ call' = [call EXCEPT ![w].pc = "gsleep"]
                     /\ hist' = [hist EXCEPT !.gbuilt[name] = @ + gmade]
           ELSE /\ call' = [call EXCEPT ![w].pc = "fetch"]
                /\ UNCHANGED <<gates, hist>>
        /\ UNCHANGED <<now, env, redis, mongo, disk, buckets, batch, tushare, writers, faulty>>

\* a failure handler that never falls back on the cached rows
DegradesNever(cached_df) == FALSE

\* lines 189 and 198: is there a cached table to fall back on
Degrades(cached_df) == cached_df.some /\ cached_df.rows # <<>>

\* lines 178-232: the provider answers; degrade, go on, or merge, store and return.
\* io is the outcome of DataCache.store's writes
Fetch(w, answer, io) ==
    LET c == call[w]
        provider == c.seq[c.i]
        path == FilesOf(c.ticker, c.interval, provider)
        fresh_df == _normalize_dataframe(answer.rows)
        df == MergeFrames(c.cached_df, fresh_df)
        key == make_key(provider, c.ticker, c.interval)
        tried == [c EXCEPT !.fetches = c.fetches + 1, !.raw = answer.rows,
                           !.trace = Append(c.trace, [ev |-> "fetch", i |-> c.i,
                                                      flag |-> answer.kind = "df" /\ df # <<>>]),
                           !.failures = c.failures + (IF answer.kind # "df" \/ df = <<>>
                                                      THEN 1 ELSE 0),
                           !.errors = IF answer.kind # "df" THEN c.errors \cup {c.i}
                                      ELSE c.errors]
        ttl_hot == ttl_for_interval(c.interval)
        \* history: the instants the tiers hold for the key before the write
        before == InstantsOf(disk[path].parquet.rows) \cup InstantsOf(disk[path].csv.rows)
                  \cup InstantsOf(redis[key].payload) \cup InstantsOf(mongo[key].payload)
    IN  /\ c.pc = "fetch"
        /\ io # "parquet" => answer.kind = "df" /\ df # <<>> /\ hist.faults < MaxFaults
        /\ IF answer.kind # "df"
           THEN /\ call' = [call EXCEPT ![w] =
                              IF Degrades(c.cached_df)
                              THEN Returned(tried, c.cached_df.rows, provider, "degrade",
                                            [origin |-> 0, ttl |-> 0, by |-> c.cached_by],
                                            <<>>)
                              ELSE [tried EXCEPT !.pc = "cache", !.i = c.i + 1]]
                /\ UNCHANGED <<redis, mongo, disk, hist>>
           ELSE IF df = <<>>
           THEN /\ call' = [call EXCEPT ![w] = [tried EXCEPT !.pc = "cache", !.i = c.i + 1]]
                /\ UNCHANGED <<redis, mongo, disk, hist>>
           ELSE IF io = "oserror"
           THEN /\ call' = [call EXCEPT ![w] = [tried EXCEPT !.pc = "raised", !.at = now]]
                /\ hist' = [hist EXCEPT !.faults = hist.faults + 1]
                /\ UNCHANGED <<redis, mongo, disk>>
           ELSE /\ disk' = [disk EXCEPT ![path] = store(disk[path], df, provider, now, io = "parquet")]
                /\ redis' = store_dataframe(redis, RedisSets, provider, c.ticker, c.interval,
                                            df, ttl_hot, now, provider)
                /\ mongo' = store_dataframe(mongo, MongoSets, provider, c.ticker, c.interval,
                                            df, ttl_hot, now, provider)
                /\ call' = [call EXCEPT ![w] =
                              Returned([tried EXCEPT !.before = before], df, provider, "fetch",
                                       [origin |-> now, ttl |-> 0, by |-> provider], df)]
                /\ hist' = [hist EXCEPT !.faults = hist.faults + (IF io = "parquet" THEN 0 ELSE 1)]
        /\ UNCHANGED <<now, env, buckets, gates, batch, tushare, writers, faulty>>

\* the server of tier 1 or 2 starts or stops failing one kind of operation
\* (connection lost and regained, timeouts)
Break(op) ==
    /\ op \notin faulty
    /\ faulty' = faulty \cup {op}
    /\ UNCHANGED <<now, env, redis, mongo, disk, buckets, gates, call, batch, hist, tushare, writers>>

Repair(op) ==
    /\ op \in faulty
    /\ faulty' = faulty \ {op}
    /\ UNCHANGED <<now, env, redis, mongo, disk, buckets, gates, call, batch, hist, tushare, writers>>

\* an artifact of tier 3 becomes unreadable (truncated or damaged file)
Corrupt(path) ==
    /\ hist.faults < MaxFaults
    /\ disk[path].parquet.st = "ok"
    /\ disk' = [disk EXCEPT ![path].parquet = [st |-> "corrupt", rows |-> <<>>]]
    /\ hist' = [hist EXCEPT !.faults = hist.faults + 1]
    /\ UNCHANGED <<now, env, redis, mongo, buckets, gates, call, batch, tushare, writers, faulty>>

\* the sidecar metadata of an entry becomes malformed (not a number, not JSON)
CorruptMeta(path) ==
    /\ hist.faults < MaxFaults
    /\ disk[path].meta.st = "ok"
    /\ disk' = [disk EXCEPT ![path].meta = [NoMeta EXCEPT !.st = "corrupt"]]
    /\ hist' = [hist EXCEPT !.faults = hist.faults + 1]
    /\ UNCHANGED <<now, env, redis, mongo, buckets, gates, call, batch, tushare, writers, faulty>>

\* tier 1 no longer holds a key it was given (evicted, flushed, server restarted)
Evict(key) ==
    /\ redis[key].st = "ok"
    /\ redis' = [redis EXCEPT ![key] = NoHot]
    /\ UNCHANGED <<now, env, mongo, disk, buckets, gates, call, batch, hist, tushare, writers, faulty>>

\* time passes: sleepers are due, expired keys of tiers 1 and 2 are gone
Tick ==
    /\ now + 15 \in TimeGrid
    /\ now' = now + 15
    /\ call' = [w \in Callers |->
                  IF call[w].pc = "sleep" THEN [call[w] EXCEPT !.pc = "limit"]
                  ELSE IF call[w].pc = "gsleep" THEN [call[w] EXCEPT !.pc = "gate"]
                  ELSE call[w]]
    /\ redis' = [k \in HotKeys |->
                   IF redis[k].st = "ok" /\ now' >= redis[k].expires THEN NoHot ELSE redis[k]]
    /\ mongo' = [k \in HotKeys |->
                   IF mongo[k].st = "ok" /\ mongo[k].expires < now' THEN NoHot ELSE mongo[k]]
    /\ UNCHANGED <<env, disk, buckets, gates, batch, hist, tushare, writers, faulty>>

\* asyncio.sleep of a waiting caller runs out: time is let pass only while a
\* caller sleeps in TokenBucket.acquire or SymbolGate.wait
TickWhileWaiting ==
    /\ \E w \in Callers : call[w].pc \in {"sleep", "gsleep"}
    /\ Tick

----------------------------------------------------------------------------
(* DataCache called directly: store and clear on the keys of a cache       *)
(* directory; a key is <<provider, ticker, timeframe>>                     *)

NoOp == [name |-> "", key |-> <<>>, changed |-> {}]

\* what DataCache(ttl).load(ticker, timeframe, provider) returns on the files
LoadOf(files, key, clock) ==
    load(files[FilesOf(key[2], key[3], key[1])], files[LegacyFilesOf(key[2], key[3])],
         _select_cache(key[3], key[1]), clock)

\* history of an operation: the other keys whose load result it changed
ChangedBy(keys, key, before, after, clock) ==
    {k \in keys \ {key} : LoadOf(after, k, clock) # LoadOf(before, k, clock)}

\* DataCache.store(ticker, timeframe, df, provider)
DataCacheStore(keys, ticker, timeframe, df, provider, wrote) ==
    LET key == <<provider, ticker, timeframe>>
        path == FilesOf(ticker, timeframe, provider)
    IN  /\ disk' = [disk EXCEPT ![path] = store(disk[path], df, provider, now, wrote)]
        /\ hist' = [hist EXCEPT !.op = [name |-> "store", key |-> key,
                                        changed |-> ChangedBy(keys, key, disk, disk', now)]]
        /\ UNCHANGED <<now, env, redis, mongo, buckets, gates, call, batch, tushare, writers, faulty>>

\* DataCache.clear(ticker, timeframe, provider)
DataCacheClear(keys, ticker, timeframe, provider) ==
    LET key == <<provider, ticker, timeframe>>
    IN  /\ disk' = clear(disk, ticker, timeframe, provider)
        /\ hist' = [hist EXCEPT !.op = [name |-> "clear", key |-> key,
                                        changed |-> ChangedBy(keys, key, disk, disk', now)]]
        /\ UNCHANGED <<now, env, redis, mongo, buckets, gates, call, batch, tushare, writers, faulty>>

----------------------------------------------------------------------------
(* get_candles_batch: task w is the _worker of tickers[w] *)

\* lines 250-268: the semaphore, the result mapping, one task per ticker; the
\* arguments are handed to every worker
get_candles_batch(tickers, start, end, interval, use_cache, force_refresh, seq, concurrency) ==
    /\ batch.pc = "idle"
    /\ Len(tickers) <= Cardinality(Callers)
    /\ batch' = [pc |-> IF tickers = <<>> THEN "returned" ELSE "gather",
                 tickers |-> tickers,
                 concurrency |-> concurrency,
                 semaphore |-> Max(1, concurrency),
                 results |-> [t \in Tickers |-> NoDF],
                 task |-> [w \in Callers |-> IF w <= Len(tickers) THEN "created" ELSE "none"]]
    /\ call' = [w \in Callers |->
                  [IdleCall EXCEPT !.ticker = IF w <= Len(tickers) THEN tickers[w] ELSE "",
                                   !.interval = interval, !.start = start, !.end = end,
                                   !.use_cache = use_cache, !.force_refresh = force_refresh,
                                   !.seq = seq]]
    /\ UNCHANGED <<now, env, redis, mongo, disk, buckets, gates, hist, tushare, writers, faulty>>

\* a worker that begins without waiting for the semaphore
WorkerEnterUnbounded(w) ==
    LET c == call[w]
    IN  /\ batch.pc \in {"gather", "raised"}
        /\ batch.task[w] = "created"
        /\ batch' = [batch EXCEPT !.semaphore = batch.semaphore - 1, !.task[w] = "running"]
        /\ call' = [call EXCEPT ![w] =
                      BeginCall(c.ticker, c.interval, c.start, c.end, c.use_cache,
                                c.force_refresh, c.seq)]
        /\ UNCHANGED <<now, env, redis, mongo, disk, buckets, gates, hist, tushare, writers, faulty>>

\* _worker, lines 255-256: the semaphore is taken and get_latest_candles begins
WorkerEnter(w) ==
    LET c == call[w]
    IN  /\ batch.pc \in {"gather", "raised"}
        /\ batch.task[w] = "created"
        /\ batch.semaphore > 0
        /\ batch' = [batch EXCEPT !.semaphore = batch.semaphore - 1, !.task[w] = "running"]
        /\ call' = [call EXCEPT ![w] =
                      BeginCall(c.ticker, c.interval, c.start, c.end, c.use_cache,
                                c.force_refresh, c.seq)]
        /\ UNCHANGED <<now, env, redis, mongo, disk, buckets, gates, hist, tushare, writers, faulty>>

\* a worker that leaves without giving the semaphore back
WorkerExitHolding(w) ==
    /\ batch.task[w] = "running"
    /\ call[w].pc \in {"done", "raised"}
    /\ batch' = [batch EXCEPT
                    !.task[w] = IF call[w].pc = "done" THEN "finished" ELSE "failed",
                    !.results[call[w].ticker] =
                        IF call[w].pc = "done" THEN Some(call[w].rows) ELSE @]
    /\ UNCHANGED <<now, env, redis, mongo, disk, buckets, gates, call, hist, tushare, writers, faulty>>

\* _worker, lines 256-265: get_latest_candles is over; its table goes into the
\* mapping, or its exception ends the task; the semaphore is given back
WorkerExit(w) ==
    /\ batch.task[w] = "running"
    /\ call[w].pc \in {"done", "raised"}
    /\ batch' = [batch EXCEPT
                    !.semaphore = batch.semaphore + 1,
                    !.task[w] = IF call[w].pc = "done" THEN "finished" ELSE "failed",
                    !.results[call[w].ticker] =
                        IF call[w].pc = "done" THEN Some(call[w].rows) ELSE @]
    /\ UNCHANGED <<now, env, redis, mongo, disk, buckets, gates, call, hist, tushare, writers, faulty>>

\* lines 270-272: gather hands on the first exception of a task, or, all tasks
\* being over, the mapping is returned
Gather ==
    /\ batch.pc = "gather"
    /\ IF \E w \in Callers : batch.task[w] = "failed"
       THEN batch' = [batch EXCEPT !.pc = "raised"]
       ELSE /\ \A w \in Callers : batch.task[w] \in {"finished", "none"}
            /\ batch' = [batch EXCEPT !.pc = "returned"]
    /\ UNCHANGED <<now, env, redis, mongo, disk, buckets, gates, call, hist, tushare, writers, faulty>>

----------------------------------------------------------------------------
(* Specification Spec: one caller issuing get_latest_candles calls one     *)
(* after another for one instrument and one provider over the whole range, *)
(* with and without the cache and force_refresh, any provider answer,       *)
(* storage faults (a failed write, a damaged artifact, malformed metadata); *)
(* the clock stands still, rate limiting is switched off (YF_MAX_RPM=0),   *)
(* tier 1 is on or off                                                     *)

Unlimited == [rpm |-> 0, per_symbol_interval |-> 0]

\* tushare_api at import: no pool read, index 0, no client, the lock free
NoTushare == [pool |-> 0, lib |-> TRUE, index |-> 0, active |-> None, lock |-> None,
              burnt |-> None, calls |-> 0, thread |-> <<>>]

\* the fetch subsystem at start-up, given the callers and the files of the
\* cache directory
InitCore(callers, files) ==
    /\ faulty = {}
    /\ redis = [k \in HotKeys |-> NoHot]
    /\ mongo = [k \in HotKeys |-> NoHot]
    /\ disk = files
    /\ buckets = [k \in ConfigNames |-> NoBucket]
    /\ gates = [k \in ConfigNames |-> [made |-> FALSE, last_seen |-> [g \in GateSymbols |-> 0]]]
    /\ call = [w \in callers |-> IdleCall]
    /\ hist = [prev |-> [w \in callers |-> IdleCall], calls |-> 0, faults |-> 0,
               grants |-> [k \in ConfigNames |-> <<>>],
               passes |-> [g \in GateSymbols |-> <<>>],
               built |-> [k \in ConfigNames |-> 0],
               gbuilt |-> [k \in ConfigNames |-> 0],
               op |-> NoOp]
    /\ batch = [pc |-> "idle", tickers |-> <<>>, concurrency |-> 0, semaphore |-> 0,
                results |-> [t \in Tickers |-> NoDF],
                task |-> [w \in callers |-> "none"]]

\* the state at start-up: no thread in tushare_api, no process in DataCache.store
InitStoresOn(callers, files) ==
    /\ now = 120
    /\ InitCore(callers, files)
    /\ tushare = NoTushare
    /\ writers = <<>>

\* start-up on an empty cache directory
InitStores(callers) == InitStoresOn(callers, [p \in Paths |-> NoEntry])

Init ==
    /\ InitStores({1})
    /\ \E r \in BOOLEAN :
          env = [redis |-> r, mongo |-> FALSE, limits |-> [k \in ConfigNames \cup {""} |-> Unlimited]]

Next ==
    \/ \E u \in BOOLEAN, f \in BOOLEAN :
          StartCall(1, "AAPL", "1m", None, None, u, f, <<"yfinance">>)
    \/ CacheCheck(1)
    \/ Exhausted(1)
    \/ Acquire(1)
    \/ \E a \in Answers, io \in {"parquet", "csv", "oserror"} : Fetch(1, a, io)
    \/ \E p \in Paths : Corrupt(p)
    \/ \E p \in Paths : CorruptMeta(p)

Spec == Init /\ [][Next]_vars

----------------------------------------------------------------------------
(* Specification SpecTime: one caller, the clock advances; calls go to      *)
(* akshare (tier-3 TTL 45 s) and then yfinance (60 s), with or without      *)
(* force_refresh, and are repeated with CallAgain; a provider answers with  *)
(* an error, with no rows or with one row; tier 1 on or off; no storage     *)
(* faults, rate limiting switched off                                       *)

\* an error, no rows, or one bar: the bar of instant 60 whose close does not
\* fit ten decimals, or the bar of instant 120
Canned ==
    {[kind |-> "ProviderError", rows |-> <<>>], [kind |-> "df", rows |-> <<>>]}
    \cup {[kind |-> "df", rows |-> <<r>>] : r \in {x \in Rows : x.c = 27 \/ x.t = 120}}

InitTime ==
    /\ InitStores({1})
    /\ \E r \in BOOLEAN :
          env = [redis |-> r, mongo |-> FALSE, limits |-> [k \in ConfigNames \cup {""} |-> Unlimited]]

NextTime ==
    \/ \E f \in BOOLEAN :
          StartCall(1, "AAPL", "1m", None, None, TRUE, f, <<"akshare", "yfinance">>)
    \/ CallAgain(1)
    \/ CacheCheck(1)
    \/ Exhausted(1)
    \/ Acquire(1)
    \/ \E a \in Canned : Fetch(1, a, "parquet")
    \/ Tick

SpecTime == InitTime /\ [][NextTime]_vars

----------------------------------------------------------------------------
(* Specification SpecLimit: two concurrent callers, one call each for daily *)
(* bars with use_cache=False to akshare and then akshare_us, which share    *)
(* the akshare bucket and gate; the providers fail, so each call passes the *)
(* limiter twice; the akshare limits are read from the environment          *)
(* (AK_MAX_RPM 0 or 2, AK_ENDPOINT_MIN_INTERVAL 0 or 30)                    *)

LimitChoices ==
    {[rpm |-> 0, per_symbol_interval |-> 30],
     [rpm |-> 2, per_symbol_interval |-> 0],
     [rpm |-> 2, per_symbol_interval |-> 30]}

CannedLimit == {[kind |-> "ProviderError", rows |-> <<>>], [kind |-> "df", rows |-> <<>>]}

InitLimit ==
    /\ InitStores({1, 2})
    /\ \E ak \in LimitChoices :
          env = [redis |-> FALSE, mongo |-> FALSE,
                 limits |-> [k \in ConfigNames \cup {""} |->
                               IF k = "akshare" THEN ak ELSE Unlimited]]

NextLimit ==
    \/ \E w \in {1, 2} :
          /\ call[w].pc = "idle"
          /\ StartCall(w, "AAPL", "1d", None, None, FALSE, FALSE, <<"akshare", "akshare_us">>)
    \/ \E w \in {1, 2} : CacheCheck(w)
    \/ \E w \in {1, 2} : Exhausted(w)
    \/ \E w \in {1, 2} : Acquire(w)
    \/ \E w \in {1, 2} : Gate(w)
    \/ \E w \in {1, 2}, a \in CannedLimit : Fetch(w, a, "parquet")
    \/ Tick

SpecLimit == InitLimit /\ [][NextLimit]_vars

----------------------------------------------------------------------------
(* Specification SpecBatch: one get_candles_batch call for one or two       *)
(* instruments on empty caches with concurrency 0, 1 or 2; each provider    *)
(* answers with an error, with no rows or with one row; the tasks share the *)
(* yfinance bucket of one token a minute (YF_MAX_RPM=1) and the clock       *)
(* advances; no storage faults                                              *)

OneAMinute == [rpm |-> 1, per_symbol_interval |-> 0]

InitBatch ==
    /\ InitStores({1, 2})
    /\ env = [redis |-> TRUE, mongo |-> FALSE,
              limits |-> [k \in ConfigNames \cup {""} |->
                            IF k = "yfinance" THEN OneAMinute ELSE Unlimited]]

NextBatch ==
    \/ \E tickers \in {<<"AAPL">>, <<"AAPL", "MSFT">>}, concurrency \in 0..2,
          seq \in {<<"yfinance">>, <<"akshare", "yfinance">>} :
          get_candles_batch(tickers, None, None, "1m", TRUE, FALSE, seq, concurrency)
    \/ \E w \in {1, 2} : WorkerEnter(w)
    \/ \E w \in {1, 2} : CacheCheck(w)
    \/ \E w \in {1, 2} : Exhausted(w)
    \/ \E w \in {1, 2} : Acquire(w)
    \/ \E w \in {1, 2}, a \in Canned : Fetch(w, a, "parquet")
    \/ \E w \in {1, 2} : Gate(w)
    \/ \E w \in {1, 2} : WorkerExit(w)
    \/ Gather
    \/ Tick

SpecBatch == InitBatch /\ [][NextBatch]_vars

----------------------------------------------------------------------------
(* Specification SpecAcquire: SpecLimit's two callers on the akshare bucket *)
(* of two tokens a minute (AK_MAX_RPM=2, no per-symbol interval): four      *)
(* acquires on one bucket.  The event loop runs every task that is ready    *)
(* and every sleep runs out: weak fairness of each caller's pass through    *)
(* TokenBucket.acquire and of the clock                                     *)

TwoAMinute == [rpm |-> 2, per_symbol_interval |-> 0]

InitAcquire ==
    /\ InitStores({1, 2})
    /\ env = [redis |-> FALSE, mongo |-> FALSE,
              limits |-> [k \in ConfigNames \cup {""} |->
                            IF k = "akshare" THEN TwoAMinute ELSE Unlimited]]

NextAcquire ==
    \/ \E w \in {1, 2} :
          /\ call[w].pc = "idle"
          /\ StartCall(w, "AAPL", "1d", None, None, FALSE, FALSE, <<"akshare", "akshare_us">>)
    \/ \E w \in {1, 2} : CacheCheck(w)
    \/ \E w \in {1, 2} : Exhausted(w)
    \/ \E w \in {1, 2} : Acquire(w)
    \/ \E w \in {1, 2} : Gate(w)
    \/ \E w \in {1, 2}, a \in CannedLimit : Fetch(w, a, "parquet")
    \/ TickWhileWaiting

SpecAcquire ==
    /\ InitAcquire
    /\ [][NextAcquire]_vars
    /\ WF_vars(TickWhileWaiting)
    /\ \A w \in {1, 2} : WF_vars(Acquire(w))

----------------------------------------------------------------------------
(* Specification SpecBatchFair: SpecBatch with a request that may name an   *)
(* instrument twice.  Every task that is ready runs, every provider call    *)
(* comes back and every sleep runs out: weak fairness of each step of each  *)
(* task, of gather and of the clock                                         *)

NextBatchFair ==
    \/ \E tickers \in {<<"AAPL">>, <<"AAPL", "MSFT">>, <<"AAPL", "AAPL">>}, concurrency \in 0..2,
          seq \in {<<"yfinance">>, <<"akshare", "yfinance">>} :
          get_candles_batch(tickers, None, None, "1m", TRUE, FALSE, seq, concurrency)
    \/ \E w \in {1, 2} : WorkerEnter(w)
    \/ \E w \in {1, 2} : CacheCheck(w)
    \/ \E w \in {1, 2} : Exhausted(w)
    \/ \E w \in {1, 2} : Acquire(w)
    \/ \E w \in {1, 2}, a \in Canned : Fetch(w, a, "parquet")
    \/ \E w \in {1, 2} : Gate(w)
    \/ \E w \in {1, 2} : WorkerExit(w)
    \/ Gather
    \/ TickWhileWaiting

SpecBatchFair ==
    /\ InitBatch
    /\ [][NextBatchFair]_vars
    /\ WF_vars(TickWhileWaiting)
    /\ WF_vars(Gather)
    /\ \A w \in {1, 2} :
          /\ WF_vars(WorkerEnter(w))
          /\ WF_vars(CacheCheck(w))
          /\ WF_vars(Exhausted(w))
          /\ WF_vars(Acquire(w))
          /\ WF_vars(Gate(w))
          /\ WF_vars(\E a \in Canned : Fetch(w, a, "parquet"))
          /\ WF_vars(WorkerExit(w))

----------------------------------------------------------------------------
(* Specification SpecResolve: get_latest_candles resolves its provider list *)
(* for instruments of the four market classes and three intervals, with a   *)
(* list of up to three names (one of them unknown) or none, under every     *)
(* registry that start-up can build and with or without preferred providers *)
(* set in the environment                                                   *)

MaxNames == 3     \* names in a requested provider list

RequestedNames == {"sina", "akshare", "akshare_us", "yfinance"}

RECURSIVE NameLists(_)
NameLists(n) ==
    IF n = 0 THEN {<<>>}
    ELSE LET s == NameLists(n - 1)
         IN  s \cup {Append(x, p) : x \in {y \in s : Len(y) = n - 1}, p \in RequestedNames}

\* _env_provider_list: the *_PRIMARY and *_SECONDARY variables that are set
PreferredChoices == {<<>>, <<"akshare">>, <<"sina", "akshare_us">>, <<"yfinance", "yfinance">>}

InitResolve ==
    /\ InitStores({1})
    /\ \E registry \in Registries, preferred \in PreferredChoices :
          env = [redis |-> FALSE, mongo |-> FALSE,
                 limits |-> [k \in ConfigNames \cup {""} |-> Unlimited],
                 registry |-> registry,
                 preferred |-> [cn |-> preferred, hk |-> preferred, us |-> preferred]]

NextResolve ==
    \E ticker \in ResolverTickers, interval \in ResolverIntervals,
       requested \in NameLists(MaxNames) :
        StartResolved(1, ticker, interval, requested)

SpecResolve == InitResolve /\ [][NextResolve]_vars

----------------------------------------------------------------------------
(* Specification SpecClip: one caller asks yfinance for minute bars with a  *)
(* start, an end, both or neither, with and without force_refresh, and      *)
(* repeats its calls; the provider answers with an error, with no rows or   *)
(* with one bar, so that the cached table comes to hold bars on both sides  *)
(* of a bound; tier 1 on or off, the clock stands still, no limits          *)

ClipBounds == {None, 60, 120}

InitClip ==
    /\ InitStores({1})
    /\ \E r \in BOOLEAN :
          env = [redis |-> r, mongo |-> FALSE, limits |-> [k \in ConfigNames \cup {""} |-> Unlimited]]

NextClip ==
    \/ \E s \in ClipBounds, e \in ClipBounds, f \in BOOLEAN :
          StartCall(1, "AAPL", "1m", s, e, TRUE, f, <<"yfinance">>)
    \/ CacheCheck(1)
    \/ Exhausted(1)
    \/ Acquire(1)
    \/ \E a \in Canned : Fetch(1, a, "parquet")

SpecClip == InitClip /\ [][NextClip]_vars

----------------------------------------------------------------------------
(* Specification SpecEmpty: one caller asks akshare and then yfinance for   *)
(* minute bars, with or without a start bound, with and without             *)
(* force_refresh, and repeats its calls; a provider answers with an error,  *)
(* with no rows or with one bar, before or at the bound; tier 1 on or off,  *)
(* the clock stands still, no limits                                        *)

StartChoices == {None, 120}

InitEmpty ==
    /\ InitStores({1})
    /\ \E r \in BOOLEAN :
          env = [redis |-> r, mongo |-> FALSE,
                 limits |-> [k \in ConfigNames \cup {""} |-> Unlimited]]

NextEmpty ==
    \/ \E s \in StartChoices, f \in BOOLEAN :
          StartCall(1, "AAPL", "1m", s, None, TRUE, f, <<"akshare", "yfinance">>)
    \/ CallAgain(1)
    \/ CacheCheck(1)
    \/ Exhausted(1)
    \/ Acquire(1)
    \/ \E a \in Canned : Fetch(1, a, "parquet")

SpecEmpty == InitEmpty /\ [][NextEmpty]_vars

-----------------------------------------------------------------------------
(* Specification SpecFresh: one caller calling for minute bars from         *)
(* yfinance while time passes, with no end, end = 120 or end = 180, with or *)
(* without force_refresh, and again; tier 1 on or off                       *)

EndChoices == {None, 120, 180}

InitFresh ==
    /\ InitStores({1})
    /\ \E r \in BOOLEAN :
          env = [redis |-> r, mongo |-> FALSE,
                 limits |-> [k \in ConfigNames \cup {""} |-> Unlimited]]

NextFresh ==
    \/ \E e \in EndChoices, f \in BOOLEAN :
          StartCall(1, "AAPL", "1m", None, e, TRUE, f, <<"yfinance">>)
    \/ CallAgain(1)
    \/ CacheCheck(1)
    \/ Exhausted(1)
    \/ Acquire(1)
    \/ \E a \in Canned : Fetch(1, a, "parquet")
    \/ Tick

SpecFresh == InitFresh /\ [][NextFresh]_vars

----------------------------------------------------------------------------
(* Specification SpecOptional: one caller at instant 195 calling for minute *)
(* bars from yfinance, with or without force_refresh, and again; tier 1 and *)
(* tier 2 are each enabled or not (REDIS_ENABLED, MONGO_ENABLED, or the     *)
(* ping at construction failing) and each get and set of an enabled tier    *)
(* may start and stop failing at any moment                                 *)

InitOptional ==
    /\ now = 195
    /\ InitCore({1}, [p \in Paths |-> NoEntry])
    /\ tushare = NoTushare
    /\ writers = <<>>
    /\ \E r \in BOOLEAN, g \in BOOLEAN :
          env = [redis |-> r, mongo |-> g,
                 limits |-> [k \in ConfigNames \cup {""} |-> Unlimited]]

NextOptional ==
    \/ \E f \in BOOLEAN :
          StartCall(1, "AAPL", "1m", None, None, TRUE, f, <<"yfinance">>)
    \/ CallAgain(1)
    \/ CacheCheck(1)
    \/ Exhausted(1)
    \/ Acquire(1)
    \/ \E a \in Canned : Fetch(1, a, "parquet")
    \/ \E op \in AdapterOps : Break(op)
    \/ \E op \in AdapterOps : Repair(op)

SpecOptional == InitOptional /\ [][NextOptional]_vars

----------------------------------------------------------------------------
(* Specification SpecTokens: two worker threads (asyncio.to_thread) call    *)
(* fetch_pro_bar, MaxCalls times in all, on a pool of one to MaxTokens      *)
(* credentials; a credential is its position in the pool.  An upstream call *)
(* succeeds, fails with a quota message or fails otherwise; the tushare     *)
(* library is installed or not.  Only _rotate_token takes _TOKEN_LOCK, so   *)
(* the statements of _load_client interleave with those of other threads    *)

IdleThread == [pc |-> "idle", token |-> None, client |-> None, attempts |-> 0, ret |-> "idle"]

\* a rotation that goes ahead whatever the size of the pool
RotatesAlways(pool) == TRUE

\* _rotate_token lines 81-83: what it reports; False, with nothing changed,
\* when the pool holds at most one credential
Rotates(pool) == pool > 1

\* fetch_pro_bar line 190, _load_client lines 93-102: the active client if
\* there is one, TushareUnavailable without tokens, else into the loop
fetch_pro_bar(t) ==
    LET th == tushare.thread[t]
    IN  /\ th.pc = "idle"
        /\ tushare.calls < MaxCalls
        /\ tushare' = [tushare EXCEPT
                          !.calls = @ + 1,
                          !.thread[t] =
                              IF tushare.active # None
                              THEN [IdleThread EXCEPT !.pc = "call", !.client = tushare.active]
                              ELSE IF tushare.pool = 0 THEN IdleThread
                              ELSE [IdleThread EXCEPT !.pc = "read"]]
        /\ UNCHANGED <<now, env, redis, mongo, disk, buckets, gates, call, batch, hist, writers, faulty>>

\* _load_client lines 104-105: one more round of the loop reads
\* tokens[_TOKEN_INDEX]; after len(tokens) rounds TushareUnavailable
ReadToken(t) ==
    LET th == tushare.thread[t]
    IN  /\ th.pc = "read"
        /\ tushare' = [tushare EXCEPT
                          !.thread[t] =
                              IF th.attempts >= tushare.pool THEN IdleThread
                              ELSE [th EXCEPT !.pc = "init", !.token = tushare.index]]
        /\ UNCHANGED <<now, env, redis, mongo, disk, buckets, gates, call, batch, hist, writers, faulty>>

\* _load_client lines 106-115: _init_client and the assignment of
\* _ACTIVE_CLIENT, or the exception and _rotate_token
InitClient(t) ==
    LET th == tushare.thread[t]
    IN  /\ th.pc = "init"
        /\ tushare' =
              IF tushare.lib
              THEN [tushare EXCEPT !.active = th.token,
                                   !.thread[t] = [th EXCEPT !.pc = "call", !.client = th.token]]
              ELSE [tushare EXCEPT
                       !.thread[t] = IF ~Rotates(tushare.pool) THEN IdleThread
                                     ELSE [th EXCEPT !.pc = "rotate", !.ret = "read",
                                                     !.attempts = th.attempts + 1]]
        /\ UNCHANGED <<now, env, redis, mongo, disk, buckets, gates, call, batch, hist, writers, faulty>>

\* fetch_pro_bar lines 193-203: the upstream call on the client in hand, and
\* _handle_tushare_error up to the call of _rotate_token; burnt (history) is
\* the credential of the latest quota error
UpstreamCall(t, outcome) ==
    LET th == tushare.thread[t]
    IN  /\ th.pc = "call"
        /\ tushare' =
              IF outcome = "quota"
              THEN [tushare EXCEPT
                       !.burnt = th.client,
                       !.thread[t] = IF ~Rotates(tushare.pool) THEN IdleThread
                                     ELSE [th EXCEPT !.pc = "rotate", !.ret = "idle"]]
              ELSE [tushare EXCEPT !.thread[t] = IdleThread]
        /\ UNCHANGED <<now, env, redis, mongo, disk, buckets, gates, call, batch, hist, writers, faulty>>

\* _rotate_token lines 85-86: the lock is taken and _TOKEN_INDEX moves on
RotateIndex(t) ==
    LET th == tushare.thread[t]
    IN  /\ th.pc = "rotate"
        /\ tushare.lock = None
        /\ tushare' = [tushare EXCEPT !.lock = t,
                                      !.index = (tushare.index + 1) % tushare.pool,
                                      !.thread[t] = [th EXCEPT !.pc = "clear"]]
        /\ UNCHANGED <<now, env, redis, mongo, disk, buckets, gates, call, batch, hist, writers, faulty>>

\* _rotate_token lines 87-90: _ACTIVE_CLIENT is dropped, the lock released,
\* and the caller goes on
RotateClear(t) ==
    LET th == tushare.thread[t]
    IN  /\ th.pc = "clear"
        /\ tushare' = [tushare EXCEPT
                          !.lock = None,
                          !.active = None,
                          !.thread[t] = IF th.ret = "read" THEN [th EXCEPT !.pc = "read"]
                                        ELSE IdleThread]
        /\ UNCHANGED <<now, env, redis, mongo, disk, buckets, gates, call, batch, hist, writers, faulty>>

InitTokens ==
    /\ now = 120
    /\ InitCore({1}, [p \in Paths |-> NoEntry])
    /\ writers = <<>>
    /\ env = [redis |-> FALSE, mongo |-> FALSE,
              limits |-> [k \in ConfigNames \cup {""} |-> Unlimited]]
    /\ \E n \in 1..MaxTokens, lib \in BOOLEAN :
          tushare = [NoTushare EXCEPT !.pool = n, !.lib = lib,
                                      !.thread = [t \in {1, 2} |-> IdleThread]]

NextTokens ==
    \/ \E t \in {1, 2} : fetch_pro_bar(t)
    \/ \E t \in {1, 2} : ReadToken(t)
    \/ \E t \in {1, 2} : InitClient(t)
    \/ \E t \in {1, 2}, outcome \in {"ok", "quota", "error"} : UpstreamCall(t, outcome)
    \/ \E t \in {1, 2} : RotateIndex(t)
    \/ \E t \in {1, 2} : RotateClear(t)

SpecTokens == InitTokens /\ [][NextTokens]_vars

----------------------------------------------------------------------------
(* Specification SpecPool: SpecTokens with a pool that may also be empty    *)
(* (neither TUSHARE_TOKEN nor TUSHARE_TOKEN_POOL set).  Every thread that   *)
(* can take a step does so in the end: weak fairness of each statement of   *)
(* each worker thread                                                       *)

InitPool ==
    /\ now = 120
    /\ InitCore({1}, [p \in Paths |-> NoEntry])
    /\ writers = <<>>
    /\ env = [redis |-> FALSE, mongo |-> FALSE,
              limits |-> [k \in ConfigNames \cup {""} |-> Unlimited]]
    /\ \E n \in 0..MaxTokens, lib \in BOOLEAN :
          tushare = [NoTushare EXCEPT !.pool = n, !.lib = lib,
                                      !.thread = [t \in {1, 2} |-> IdleThread]]

SpecPool ==
    /\ InitPool
    /\ [][NextTokens]_vars
    /\ \A t \in {1, 2} :
          /\ WF_vars(ReadToken(t))
          /\ WF_vars(InitClient(t))
          /\ WF_vars(RotateIndex(t))
          /\ WF_vars(RotateClear(t))

----------------------------------------------------------------------------
(* Specification SpecWriters: two processes that share the cache directory *)
(* call DataCache.store once each on the same key while time passes; the    *)
(* table is empty, one bar or two bars; the parquet engine works.  A        *)
(* process is between the artifact write and the metadata write at pc       *)
(* "meta"; nothing orders the file writes of different processes            *)

IdleWriter == [pc |-> "idle", ticker |-> "", timeframe |-> "", provider |-> "",
               df |-> <<>>, at |-> 0]

WriterFrames ==
    {<<>>,
     <<[t |-> 60, c |-> 20, v |-> 50]>>,
     <<[t |-> 60, c |-> 20, v |-> 50], [t |-> 120, c |-> 20, v |-> 50]>>}

\* DataCache.store, lines 72-81: the empty table is skipped, else the artifact
\* is written
StoreArtifact(p, ticker, timeframe, df, provider) ==
    LET path == FilesOf(ticker, timeframe, provider)
        written == store(disk[path], df, provider, now, TRUE)
    IN  /\ writers[p].pc = "idle"
        /\ writers' = [writers EXCEPT ![p] =
                          [pc |-> IF df = <<>> THEN "done" ELSE "meta", ticker |-> ticker,
                           timeframe |-> timeframe, provider |-> provider, df |-> df,
                           at |-> now]]
        /\ disk' = [disk EXCEPT ![path].parquet = written.parquet, ![path].csv = written.csv]
        /\ UNCHANGED <<now, env, redis, mongo, buckets, gates, call, batch, hist, tushare, faulty>>

\* DataCache.store, lines 83-85: the sidecar metadata is written
StoreMeta(p) ==
    LET w == writers[p]
        path == FilesOf(w.ticker, w.timeframe, w.provider)
    IN  /\ w.pc = "meta"
        /\ disk' = [disk EXCEPT ![path].meta =
                       store(disk[path], w.df, w.provider, now, TRUE).meta]
        /\ writers' = [writers EXCEPT ![p].pc = "done", ![p].at = now]
        /\ UNCHANGED <<now, env, redis, mongo, buckets, gates, call, batch, hist, tushare, faulty>>

InitWriters ==
    /\ now = 120
    /\ InitCore({1}, [p \in Paths |-> NoEntry])
    /\ tushare = NoTushare
    /\ writers = [p \in {1, 2} |-> IdleWriter]
    /\ env = [redis |-> FALSE, mongo |-> FALSE,
              limits |-> [k \in ConfigNames \cup {""} |-> Unlimited]]

NextWriters ==
    \/ \E p \in {1, 2}, df \in WriterFrames : StoreArtifact(p, "AAPL", "1m", df, "yfinance")
    \/ \E p \in {1, 2} : StoreMeta(p)
    \/ Tick

SpecWriters == InitWriters /\ [][NextWriters]_vars

----------------------------------------------------------------------------
(* Specification SpecRates: one caller calling for daily bars with          *)
(* use_cache=False, akshare and then akshare_us, both failing; AK_MAX_RPM   *)
(* is read as 0 (also what a negative value is clamped to), 1, 2 or 3       *)

RateChoices == {[rpm |-> r, per_symbol_interval |-> 0] : r \in 0..3}

InitRates ==
    /\ InitStores({1})
    /\ \E ak \in RateChoices :
          env = [redis |-> FALSE, mongo |-> FALSE,
                 limits |-> [k \in ConfigNames \cup {""} |->
                               IF k = "akshare" THEN ak ELSE Unlimited]]

NextRates ==
    \/ StartCall(1, "AAPL", "1d", None, None, FALSE, FALSE, <<"akshare", "akshare_us">>)
    \/ CacheCheck(1)
    \/ Exhausted(1)
    \/ Acquire(1)
    \/ Gate(1)
    \/ \E a \in CannedLimit : Fetch(1, a, "parquet")
    \/ Tick

SpecRates == InitRates /\ [][NextRates]_vars

----------------------------------------------------------------------------
(* Specification SpecTiers: one caller, all three tiers on, at instant 195 *)
(* (the clock stands still): a cached bar of instant 120 passes the         *)
(* freshness check, one of instant 60 does not; calls for minute bars go to *)
(* akshare and then yfinance, with or without force_refresh, and are        *)
(* repeated; both are limited to two requests a minute, yfinance also to    *)
(* one per instrument in 30 s; a provider answers with an error, with no    *)
(* rows or with one bar; tier 1 may lose a key                              *)

InitTiers ==
    /\ now = 195
    /\ InitCore({1}, [p \in Paths |-> NoEntry])
    /\ tushare = NoTushare
    /\ writers = <<>>
    /\ env = [redis |-> TRUE, mongo |-> TRUE,
              limits |-> [k \in ConfigNames \cup {""} |->
                            IF k = "akshare" THEN [rpm |-> 2, per_symbol_interval |-> 0]
                            ELSE IF k = "yfinance"
                            THEN [rpm |-> 2, per_symbol_interval |-> 30]
                            ELSE Unlimited]]

NextTiers ==
    \/ \E f \in BOOLEAN :
          StartCall(1, "AAPL", "1m", None, None, TRUE, f, <<"akshare", "yfinance">>)
    \/ CallAgain(1)
    \/ CacheCheck(1)
    \/ Exhausted(1)
    \/ Acquire(1)
    \/ Gate(1)
    \/ \E a \in Canned : Fetch(1, a, "parquet")
    \/ \E k \in HotKeys : Evict(k)

SpecTiers == InitTiers /\ [][NextTiers]_vars

----------------------------------------------------------------------------
(* Specification SpecCache: DataCache.store and DataCache.clear called for  *)
(* daily bars of two instruments that differ in their exchange suffix, with *)
(* two providers, on a cache directory that may hold a legacy entry left by *)
(* an earlier layout; the clock stands still                                *)

CacheProviders == {"akshare", "yfinance"}

CacheKeys == {<<p, t, "1d">> : p \in CacheProviders, t \in DottedTickers}

CacheTables == {<<r>> : r \in {x \in Rows : x.c = 20}}

\* an entry in the legacy layout; `by` is history: the source of its rows,
\* which a legacy entry does not record
LegacyEntry(rows, by) ==
    [parquet |-> [st |-> "ok", rows |-> rows],
     csv |-> NoFile,
     meta |-> [st |-> "ok", cached_at |-> 120, provider |-> by, rows |-> Len(rows)]]

InitCache ==
    /\ env = [redis |-> FALSE, mongo |-> FALSE, limits |-> [k \in ConfigNames \cup {""} |-> Unlimited]]
    /\ \E old \in BOOLEAN :
          InitStoresOn({1}, [p \in PathsOf(DottedTickers, CacheProviders) |->
                               IF old /\ p = LegacyFilesOf("000001.SZ", "1d")
                               THEN LegacyEntry(<<[t |-> 60, c |-> 20, v |-> 50]>>, "yfinance")
                               ELSE NoEntry])

NextCache ==
    \/ \E k \in CacheKeys, df \in CacheTables, wrote \in BOOLEAN :
          DataCacheStore(CacheKeys, k[2], k[3], df, k[1], wrote)
    \/ \E k \in CacheKeys : DataCacheClear(CacheKeys, k[2], k[3], k[1])

SpecCache == InitCache /\ [][NextCache]_vars

----------------------------------------------------------------------------
(* Specification SpecLegacy: one caller asks for minute bars with and       *)
(* without force_refresh on a cache directory that may hold a legacy entry  *)
(* for the instrument; providers akshare then yfinance, or yfinance alone;  *)
(* the clock stands still; tier 1 on or off; no storage faults, no limits   *)

InitLegacy ==
    /\ \E old \in BOOLEAN, by \in {"akshare", "yfinance"} :
          InitStoresOn({1}, [p \in Paths |->
                               IF old /\ p = LegacyFilesOf("AAPL", "1m")
                               THEN LegacyEntry(<<[t |-> 120, c |-> 20, v |-> 50]>>, by)
                               ELSE NoEntry])
    /\ \E r \in BOOLEAN :
          env = [redis |-> r, mongo |-> FALSE, limits |-> [k \in ConfigNames \cup {""} |-> Unlimited]]

NextLegacy ==
    \/ \E f \in BOOLEAN, seq \in {<<"akshare", "yfinance">>, <<"yfinance">>} :
          StartCall(1, "AAPL", "1m", None, None, TRUE, f, seq)
    \/ CacheCheck(1)
    \/ Exhausted(1)
    \/ Acquire(1)
    \/ \E a \in Canned : Fetch(1, a, "parquet")

SpecLegacy == InitLegacy /\ [][NextLegacy]_vars

----------------------------------------------------------------------------
(* Properties *)

StoredTables ==
    {disk[p].parquet.rows : p \in Paths} \cup {disk[p].csv.rows : p \in Paths}
    \cup {redis[k].payload : k \in HotKeys} \cup {mongo[k].payload : k \in HotKeys}

\* C7: every table stored in a cache tier and every table a call returned has
\* strictly increasing, pairwise distinct instants
C7_MergeInvariant ==
    /\ \A rows \in StoredTables : StrictlyIncreasing(rows)
    /\ \A w \in Callers : call[w].pc = "done" => StrictlyIncreasing(call[w].rows)

\* a fetch whose answer was out of order or repeated an instant has been merged
\* with cached rows, stored and returned with two rows
C7_Witness ==
    \E w \in Callers :
        /\ call[w].pc = "done" /\ call[w].via = "fetch"
        /\ ~StrictlyIncreasing(call[w].raw)
        /\ call[w].cached_df.rows # <<>>
        /\ Len(call[w].rows) = 2
        /\ disk[FilesOf(call[w].ticker, call[w].interval, call[w].source)].parquet.rows
              = call[w].stored

\* C8: after a successful fetch, a stored (and returned) row whose instant is
\* both in the cached frame and in the fetched frame is the fetched row, cell by
\* cell, an absent cell included
C8_KeepLastOnConflict ==
    \A w \in Callers :
        (call[w].pc = "done" /\ call[w].via = "fetch") =>
            LET fresh == _normalize_dataframe(call[w].raw)
                cached == call[w].cached_df.rows
            IN  \A i \in 1..Len(call[w].stored) : \A j \in 1..Len(fresh) :
                    (/\ call[w].stored[i].t = fresh[j].t
                     /\ call[w].stored[i].t \in InstantsOf(cached))
                    => call[w].stored[i] = fresh[j]

\* C11: a call whose tier-3 lookup met a damaged artifact or malformed metadata
\* has not raised and has not been answered from tier 3: it goes on to the
\* provider as after a miss
C11_CorruptionIsMiss ==
    \A w \in Callers :
        call[w].damaged =>
            /\ call[w].pc # "raised"
            /\ call[w].via # "disk"

\* C4: no get_latest_candles call ends by raising
C4_NeverRaises == \A w \in Callers : call[w].pc # "raised"

C2_StalenessTriggersRefresh ==
    \A w \in Callers :
        LET c == call[w]
        IN  (c.pc = "done" /\ c.via \in {"hot", "disk"} /\ c.fetches = 0)
            => c.at - c.served.origin
                  <= Max(ttl_for_interval(c.interval), _select_cache(c.interval, c.source))

\* a readable tier-3 entry of any age for the key
EntryExists(provider, ticker, interval) ==
    LET entry == disk[FilesOf(ticker, interval, provider)]
    IN  entry.parquet.st = "ok" /\ entry.meta.st = "ok"

\* C3: a call does not go past a provider that raised while tier 3 holds an
\* entry, fresh or stale, for that provider's key; the degraded return carries
\* the cached rows and that provider's name
C3_FallbackWithDegrade ==
    \A w \in Callers :
        LET c == call[w]
        IN  (c.pc = "done" /\ c.use_cache) =>
               /\ \A k \in c.errors :
                     k < c.i => ~EntryExists(c.seq[k], c.ticker, c.interval)
               /\ c.via = "degrade" =>
                     /\ c.source = c.seq[c.i]
                     /\ c.rows = _clip_dataframe(c.cached_df.rows, c.start, c.end)

\* C5: once every provider of the list has failed or sent no rows, none of them
\* having a cache entry in any tier, the call has not raised and what it returns
\* is the empty table
C5_Exhaustion ==
    \A w \in Callers :
        LET c == call[w]
        IN  (c.pc # "idle" /\ c.failures = Len(c.seq) /\ c.nocache) =>
               /\ c.pc \in {"cache", "done"}
               /\ c.pc = "cache" => c.i > Len(c.seq)
               /\ c.pc = "done" => c.rows = <<>> /\ c.via = "empty"

\* two providers failed in turn, nothing cached, the empty table came back
C5_Witness ==
    \E w \in Callers :
        /\ call[w].pc = "done" /\ call[w].via = "empty" /\ call[w].rows = <<>>
        /\ Len(call[w].seq) = 2 /\ call[w].failures = 2 /\ call[w].nocache
        /\ call[w].errors # {}

\* the tokens granted by a bucket at the instants a to b
GrantsIn(name, a, b) ==
    Cardinality({i \in 1..Len(hist.grants[name]) :
                    a <= hist.grants[name][i] /\ hist.grants[name][i] <= b})

\* C9: a bucket configured at R requests a minute has capacity R, and in any
\* span of T seconds it grants at most R + T * R / 60 acquires, whatever the
\* number of callers (both sides are carried times 60)
C9_RateEnforcement ==
    \A name \in ConfigNames :
        buckets[name].st = "ok" =>
            /\ buckets[name].capacity = env.limits[name].rpm
            /\ \A a \in TimeGrid : \A b \in TimeGrid :
                  a <= b => 60 * GrantsIn(name, a, b)
                               <= 60 * buckets[name].capacity
                                  + (b - a) * env.limits[name].rpm

\* the bucket of two tokens has granted a third acquire, half a minute after the
\* first two: the bound is met with equality
C9_Witness ==
    \E name \in ConfigNames :
        /\ buckets[name].st = "ok" /\ env.limits[name].rpm = 2
        /\ Len(hist.grants[name]) >= 3
        /\ hist.grants[name][3] - hist.grants[name][1] = 30
        /\ GrantsIn(name, hist.grants[name][1], hist.grants[name][3]) = 3

C14_SymbolGateSpacing ==
    \A g \in GateSymbols :
        LET m == env.limits[g[1]].per_symbol_interval
            p == hist.passes[g]
        IN  /\ p # <<>> => m > 0 /\ p[1] >= m /\ gates[g[1]].last_seen[g] = p[Len(p)]
            /\ \A i \in 1..Len(p) : \A j \in 1..Len(p) : i < j => p[j] - p[i] >= m

\* two callers have both been through the gate of one key twice: four returns,
\* consecutive ones exactly the minimum interval apart, while a caller that
\* came too early was made to wait
C14_Witness ==
    \E g \in GateSymbols :
        /\ env.limits[g[1]].per_symbol_interval = 30
        /\ Len(hist.passes[g]) >= 3
        /\ hist.passes[g][2] - hist.passes[g][1] = 30
        /\ \E w \in Callers : call[w].pc = "gsleep"

\* the tasks of the batch that hold the semaphore: inside get_latest_candles,
\* or done with it and not yet out of the `async with`
InFlight == {w \in Callers : batch.task[w] = "running"}

\* C15: during a batch called with concurrency n at most max(1, n) tasks hold
\* the semaphore, and only those are inside get_latest_candles
C15_BoundedConcurrency ==
    batch.pc # "idle" =>
        /\ Cardinality(InFlight) <= Max(1, batch.concurrency)
        /\ batch.semaphore = Max(1, batch.concurrency) - Cardinality(InFlight)
        /\ \A w \in Callers :
              call[w].pc \notin {"idle", "done", "raised"} => w \in InFlight

\* a batch of two instruments called with concurrency 0: one task is waiting
\* for its provider while the other has not been let in
C15_Witness ==
    /\ batch.pc = "gather" /\ Len(batch.tickers) = 2 /\ batch.concurrency = 0
    /\ \E w \in Callers : call[w].pc = "fetch" /\ w \in InFlight
    /\ \E w \in Callers : batch.task[w] = "created"
    /\ batch.semaphore = 0

NoDuplicates(seq) == \A i \in 1..Len(seq) : \A j \in 1..Len(seq) : i # j => seq[i] # seq[j]

\* the names of a list that are registered and support the interval, each at
\* its first place in the list
Qualifying(names, registry, interval) ==
    Pick(names, {i \in 1..Len(names) :
                    /\ names[i] \in registry
                    /\ supports(names[i], interval)
                    /\ \A j \in 1..(i - 1) : names[j] # names[i]}, 1)

\* C17: for a call with a list of provider names, the resolved sequence has no
\* duplicates; when a requested name is registered and supports the interval
\* the sequence is exactly those names in the caller's order, unknown and
\* unsupporting ones left out and nothing added; when none does, the sequence
\* is the default provider alone
C17_ExplicitList ==
    \A w \in Callers :
        LET c == call[w]
            q == Qualifying(c.requested, env.registry, c.interval)
        IN  (c.pc = "cache" /\ c.requested # <<>>) =>
               /\ NoDuplicates(c.seq)
               /\ q # <<>> => c.seq = q
               /\ q = <<>> => c.seq = <<"yfinance">>

\* a list of three names, among them an unknown one and one named twice, has
\* been resolved to the one provider that qualifies, though more are registered
C17_Witness ==
    \E w \in Callers :
        LET c == call[w]
        IN  /\ c.pc = "cache" /\ Len(c.requested) = 3
            /\ "sina" \in Range(c.requested)
            /\ ~NoDuplicates(c.requested)
            /\ Len(c.seq) = 1 /\ c.seq[1] \in Range(c.requested)
            /\ Cardinality({p \in env.registry : supports(p, c.interval)}) > 1

\* C18: for a call without a list the resolved sequence is not empty, has no
\* duplicates, holds exactly the registered providers that support the
\* interval, and begins with the qualifying preferred ones (the environment's
\* when set, else the market's) in their order; were no registered provider to
\* support the interval it would be the default provider alone
C18_DefaultList ==
    \A w \in Callers :
        LET c == call[w]
            able == {p \in env.registry : supports(p, c.interval)}
            first == Qualifying(PreferredFor(c.ticker, env.preferred), env.registry, c.interval)
        IN  (c.pc = "cache" /\ c.requested = <<>>) =>
               /\ c.seq # <<>>
               /\ NoDuplicates(c.seq)
               /\ \A i \in 1..Len(c.seq) : supports(c.seq[i], c.interval)
               /\ able # {} => Range(c.seq) = able
               /\ able = {} => c.seq = <<"yfinance">>
               /\ Len(first) <= Len(c.seq) /\ SubSeq(c.seq, 1, Len(first)) = first

\* daily bars of a mainland instrument with every provider registered and the
\* environment preferring akshare: akshare comes first, the rest follow in the
\* order of registration
C18_Witness ==
    \E w \in Callers :
        LET c == call[w]
        IN  /\ c.pc = "cache" /\ c.requested = <<>>
            /\ c.ticker = "600519.SH" /\ c.interval = "1d"
            /\ env.preferred.cn = <<"akshare">>
            /\ c.seq = <<"akshare", "tushare", "akshare_us", "yfinance">>

\* C21: a table returned from tier 1 or 2, from tier 3, as a degraded answer
\* or after a fetch holds only rows at or after the start and at or before the
\* end of the call, for each bound that was given
C21_RangeClipping ==
    \A w \in Callers :
        LET c == call[w]
        IN  (c.pc = "done" /\ c.via \in {"hot", "disk", "degrade", "fetch"}) =>
               \A i \in 1..Len(c.rows) :
                   /\ c.start # None => c.rows[i].t >= c.start
                   /\ c.end # None => c.rows[i].t <= c.end

\* a degraded answer with both bounds given: of the two cached bars the one
\* after the end has been left out
C21_Witness ==
    \E w \in Callers :
        LET c == call[w]
        IN  /\ c.pc = "done" /\ c.via = "degrade"
            /\ c.start = 60 /\ c.end = 60
            /\ Len(c.cached_df.rows) = 2
            /\ Len(c.rows) = 1 /\ c.rows[1].t = 60

C24_MergeIsUnion ==
    \A w \in Callers :
        LET c == call[w]
        IN  (c.pc = "done" /\ c.via = "fetch" /\ c.use_cache) =>
               InstantsOf(c.stored) = c.before \cup InstantsOf(c.raw)

\* C25: backfill. A lookup (force_refresh false, tier 1 on) that misses tier 1
\* and hits tier 2, or goes on to tier 3 and hits it, leaves the key live in
\* tier 1, and after a tier-3 hit in tier 2 as well when tier 2 is on, so
\* that a lookup that follows at once hits tier 1
C25_Backfill ==
    [][\A w \in Callers :
          LET c == call[w]
              provider == c.seq[c.i]
              key == make_key(provider, c.ticker, c.interval)
              lower == MongoGet(key, now)
              lower_rows == _normalize_dataframe(lower.rows)
              cold == load(disk[FilesOf(c.ticker, c.interval, provider)],
                           disk[LegacyFilesOf(c.ticker, c.interval)],
                           _select_cache(c.interval, provider), now)
              returned_early == lower.some /\ call'[w].pc = "done" /\ call'[w].via = "hot"
          IN  (/\ c.pc = "cache"
               /\ c.i <= Len(c.seq)
               /\ call'[w] # c
               /\ c.use_cache
               /\ ~c.force_refresh
               /\ env.redis
               /\ ~RedisGet(key, now).some)
              => /\ (lower.some \/ (~returned_early /\ cold.kind = "df")) =>
                        redis'[key].st = "ok" /\ now < redis'[key].expires
                 /\ (~returned_early /\ cold.kind = "df" /\ env.mongo) =>
                        mongo'[key].st = "ok" /\ now <= mongo'[key].expires]_vars

\* C26: read order. On a lookup (force_refresh false) tier 2 is not read when
\* tier 1 hits, and the first hit of tiers 1/2 is the entry the call goes on
\* with: the call does not return the tier-3 entry in its place, and when it
\* goes on to the provider the table kept for the merge and the degrade path
\* is that first hit
C26_ReadOrder ==
    [][\A w \in Callers :
          LET c == call[w]
              provider == c.seq[c.i]
              key == make_key(provider, c.ticker, c.interval)
              first == load_dataframe(provider, c.ticker, c.interval, now)
          IN  (/\ c.pc = "cache"
               /\ c.i <= Len(c.seq)
               /\ call'[w] # c
               /\ c.use_cache
               /\ ~c.force_refresh)
              => /\ RedisGet(key, now).some => 2 \notin call'[w].read
                 /\ first.some =>
                       /\ call'[w].pc = "done" => call'[w].via = "hot"
                       /\ call'[w].pc = "limit" =>
                              call'[w].cached_df = Some(_normalize_dataframe(first.rows))]_vars

C28_OneLimiterPerProvider ==
    \A name \in ConfigNames :
        /\ hist.built[name] <= 1
        /\ hist.gbuilt[name] <= 1
        /\ hist.built[name] = 1 <=> buckets[name].st = "ok"
        /\ hist.gbuilt[name] = 1 <=> gates[name].made
        /\ hist.grants[name] # <<>> =>
              /\ hist.built[name] = 1
              /\ 60 * Len(hist.grants[name])
                    <= 60 * buckets[name].capacity
                       + (now - hist.grants[name][1]) * env.limits[name].rpm
        /\ \A w \in Callers :
              (/\ call[w].pc \in {"gate", "gsleep", "fetch"}
               /\ call[w].acquired
               /\ _config_for(call[w].seq[call[w].i]) = name) =>
                  hist.built[name] = 1

\* two concurrent callers hold a token each, taken from the one akshare
\* bucket, and have met at the one akshare gate
C28_Witness ==
    /\ hist.built["akshare"] = 1
    /\ hist.gbuilt["akshare"] = 1
    /\ Len(hist.grants["akshare"]) = 2
    /\ hist.grants["akshare"][1] = hist.grants["akshare"][2]
    /\ buckets["akshare"].tokens = 0
    /\ \A w \in {1, 2} : w \in Callers /\ call[w].acquired /\ call[w].i = 1
    /\ \E w \in Callers : call[w].pc = "gsleep"

\* C29: last write wins on a key. When two writers have stored tables on the
\* same key and both are done, the tier-3 entry is the entry of one of them
\* in full: the artifact holds that writer's table and the sidecar metadata
\* is the one that writer wrote (its row count and its instant)
C29_LastWriteWins ==
    \A p \in DOMAIN writers, q \in DOMAIN writers :
        LET a == writers[p]
            b == writers[q]
            entry == disk[FilesOf(a.ticker, a.timeframe, a.provider)]
        IN  (/\ p # q
             /\ a.pc = "done" /\ b.pc = "done"
             /\ a.df # <<>> /\ b.df # <<>>
             /\ <<a.ticker, a.timeframe, a.provider>> = <<b.ticker, b.timeframe, b.provider>>)
            => \E x \in {a, b} :
                  /\ entry.parquet = [st |-> "ok", rows |-> x.df]
                  /\ entry.meta = [st |-> "ok", cached_at |-> x.at, provider |-> x.provider,
                                    rows |-> Len(x.df)]

\* C30: credential rotation. With at least two credentials in the pool, once
\* a quota error has been detected and every thread is back from its call,
\* the credential the next upstream call will use (that of the active
\* client, else the one the index points at) is not the one that received
\* the latest quota error
C30_CredentialRotation ==
    (/\ tushare.pool >= 2
     /\ tushare.burnt # None
     /\ \A t \in DOMAIN tushare.thread : tushare.thread[t].pc = "idle")
    => (IF tushare.active # None THEN tushare.active ELSE tushare.index) # tushare.burnt

C36_Tier3RoundTrip ==
    \A w \in Callers :
        LET c == call[w]
            entry == disk[FilesOf(c.ticker, c.interval, c.source)]
        IN  (c.pc = "done" /\ c.via = "fetch" /\ ~Damaged(entry)) =>
                load(entry, disk[LegacyFilesOf(c.ticker, c.interval)],
                     _select_cache(c.interval, c.source), now)
                  = [kind |-> "df", rows |-> c.stored]

\* provider calls made or under way, over all callers
ProviderCalls ==
    Cardinality({x \in Callers \X (1..(2 * MaxCalls)) :
                    x[2] <= call[x[1]].fetches
                            + (IF call[x[1]].pc = "fetch" THEN 1 ELSE 0)})

\* C37: 'akshare' and 'akshare_us' resolve to the one akshare configuration;
\* when it is enabled a call for either name holds a token of the akshare
\* bucket before it reaches the provider and, with a per-symbol interval, has
\* passed the akshare gate under the key of its symbol; the provider calls
\* for both names together are no more than the grants of that bucket, which
\* stay within capacity + T * rpm / 60 since the first grant (times 60); no
\* bucket or gate exists under the name akshare_us. A name with no matching
\* configuration resolves to none and is not limited
C37_SharedPrefixLimiter ==
    LET config == env.limits["akshare"]
        grants == hist.grants["akshare"]
    IN  /\ _config_for("akshare") = "akshare"
        /\ _config_for("akshare_us") = "akshare"
        /\ _config_for("default") = ""
        /\ ~Limited(_config_for("default"), env.limits[_config_for("default")])
        /\ "akshare_us" \notin DOMAIN buckets \cup DOMAIN gates
        /\ enabled(config) =>
              /\ \A w \in Callers :
                    LET c == call[w]
                    IN  (c.pc = "fetch" /\ c.seq[c.i] \in {"akshare", "akshare_us"}) =>
                            /\ c.acquired
                            /\ buckets["akshare"].st = "ok"
                            /\ config.per_symbol_interval > 0 =>
                                  /\ c.gated
                                  /\ gates["akshare"].made
                                  /\ Len(hist.passes[GateSymbol("akshare", c.ticker)]) >= 1
              /\ ProviderCalls <= Len(grants)
              /\ grants # <<>> =>
                    60 * ProviderCalls
                       <= 60 * buckets["akshare"].capacity + (now - grants[1]) * config.rpm

\* one caller is calling akshare_us and the other akshare, each with a token
\* of the akshare bucket, whose two tokens are spent
C37_Witness ==
    /\ enabled(env.limits["akshare"])
    /\ \E w \in Callers, v \in Callers :
          /\ call[w].pc = "fetch" /\ call[w].seq[call[w].i] = "akshare_us"
          /\ call[v].pc = "fetch" /\ call[v].seq[call[v].i] = "akshare"
    /\ Len(hist.grants["akshare"]) = 3
    /\ buckets["akshare"].tokens < 60

\* C38: the tokens of a bucket stay within 0 and its capacity (carried times
\* 60); a pass of acquire() that returns leaves one token less than the
\* refilled amount, a pass that has to wait leaves the refilled amount, and
\* nothing else changes a bucket
C38_TokenBucketInvariant ==
    /\ [](\A name \in ConfigNames :
            buckets[name].st = "ok" =>
                /\ 0 <= buckets[name].tokens
                /\ buckets[name].tokens <= 60 * buckets[name].capacity)
    /\ [][\A name \in ConfigNames :
            LET bucket == _bucket_for(name, env.limits[name], now)
                elapsed == now - bucket.updated_at
                refilled == IF elapsed > 0
                            THEN Min(60 * bucket.capacity,
                                     bucket.tokens + elapsed * bucket.refill_rate)
                            ELSE bucket.tokens
                passes == {w \in Callers :
                              /\ call[w].pc = "limit"
                              /\ call'[w].pc \in {"gate", "sleep"}
                              /\ _config_for(call[w].seq[call[w].i]) = name}
            IN  /\ buckets'[name] # buckets[name] => passes # {}
                /\ \A w \in passes :
                      /\ buckets'[name].updated_at = now
                      /\ call'[w].pc = "gate" =>
                            refilled >= 60 /\ buckets'[name].tokens = refilled - 60
                      /\ call'[w].pc = "sleep" =>
                            refilled < 60 /\ buckets'[name].tokens = refilled]_vars

\* a caller waits on a bucket that has granted a token and now holds part of
\* one, the refill of a quarter of a minute
C38_Witness ==
    \E w \in Callers :
        /\ call[w].pc = "sleep"
        /\ hist.grants["akshare"] # <<>>
        /\ buckets["akshare"].capacity = 2
        /\ buckets["akshare"].tokens = 30
        /\ buckets["akshare"].updated_at = now

\* the bookkeeping of C39 but for the range of the index: a rotation asked
\* for with a pool of at most one credential changes nothing and is not
\* carried out, the init under way in _load_client is at most the
\* pool-size-th of that call, and _load_client comes to an end
PoolBookkeeping ==
    /\ [](\A t \in DOMAIN tushare.thread :
            LET th == tushare.thread[t]
            IN  /\ th.attempts <= tushare.pool
                /\ th.pc = "init" => th.attempts < tushare.pool)
    /\ [][\A t \in DOMAIN tushare.thread :
            LET th == tushare.thread[t]
                after == tushare'.thread[t]
            IN  (tushare.pool <= 1 /\ after # th) =>
                    /\ tushare'.index = tushare.index
                    /\ tushare'.lock = tushare.lock
                    /\ after.pc \notin {"rotate", "clear"}
                    /\ \/ tushare'.active = tushare.active
                       \/ th.pc = "init" /\ tushare.lib /\ tushare'.active = th.token
                    /\ (th.pc = "init" /\ ~tushare.lib) => after = IdleThread
                    /\ th.pc = "call" => after = IdleThread]_vars
    /\ \A t \in {1, 2} :
          (tushare.thread[t].pc \in {"read", "init", "rotate", "clear"})
             ~> (tushare.thread[t].pc \in {"idle", "call"})

C12_KeyIsolation == hist.op.changed = {}

\* C19: when a call has just written its table to tier 3, the key's sidecar
\* metadata names the key's provider and its row count is the number of rows
\* that load returns for the key
C19_SidecarConsistency ==
    \A w \in Callers :
        LET c == call[w]
            key == <<c.source, c.ticker, c.interval>>
            entry == disk[FilesOf(c.ticker, c.interval, c.source)]
        IN  (c.pc = "done" /\ c.via = "fetch" /\ entry.meta.st = "ok") =>
               /\ entry.meta.provider = c.source
               /\ LoadOf(disk, key, now).kind = "df" =>
                     Len(LoadOf(disk, key, now).rows) = entry.meta.rows

\* C20: the source tag of a returned table that has rows is the name of the
\* provider that was fetched from or, for rows handed out from a cache, the
\* provider that goes with the entry they were read from
C20_ProviderTag ==
    \A w \in Callers :
        (call[w].pc = "done" /\ call[w].rows # <<>>) =>
            call[w].source = call[w].served.by

====
